---- MODULE Spec2Model ----
(***************************************************************************)
(* The engine-communication layer of ban-chess-gui:                        *)
(*   - StockfishManager (components/MultiEngineManager.ts), the Session    *)
(*     that runs on the main thread and fans events out to subscribers;    *)
(*   - the Stockfish Web Worker (engine/StockfishWorker.ts) with its UCI   *)
(*     parser, position adapter and message handler;                       *)
(*   - the UCI engine inside the worker, an external process that is       *)
(*     modelled by its protocol: it answers uci, isready, go and stop.     *)
(* The main thread and every worker are single threaded: one action is one *)
(* callback of one of them, run to completion.  The fan-out of one event   *)
(* is a run of main-thread steps, one per handler, during which no other   *)
(* main-thread callback can start.                                         *)
(***************************************************************************)
EXTENDS Integers, Sequences, FiniteSets, TLC

\* ---------------------------------------------------------------- bounds
MaxWorkers == 2      \* workers one Session may create
MaxHandlers == 2     \* length of the subscriber registry
MaxQueue == 2        \* messages in flight per direction and worker
MaxCalls == 4        \* calls the application makes on the Session
MaxInfo == 1         \* info lines the engine prints per search

Workers == 1..MaxWorkers
Handlers == 1..2
NoWorker == 0        \* stockfishWorker === null

\* --------------------------------------------------------------- helpers
\* Array.prototype.indexOf, 1-based; 0 stands for -1.
IndexOf(s, x) ==
    IF \E i \in 1..Len(s) : s[i] = x
    THEN CHOOSE i \in 1..Len(s) : s[i] = x /\ \A j \in 1..(i - 1) : s[j] # x
    ELSE 0

Includes(s, x) == \E i \in 1..Len(s) : s[i] = x

\* s.splice(i, 1)
RemoveAt(s, i) == [j \in 1..(Len(s) - 1) |-> IF j < i THEN s[j] ELSE s[j + 1]]

\* s.slice(0, n)
Slice(s, n) == IF Len(s) <= n THEN s ELSE SubSeq(s, 1, n)

\* { ...a, ...b }
Merge(a, b) ==
    [k \in (DOMAIN a) \cup (DOMAIN b) |-> IF k \in DOMAIN b THEN b[k] ELSE a[k]]

Has(r, k) == k \in DOMAIN r

\* An absent optional value (undefined) is the empty sequence, a present one
\* a sequence of one element.
Undefined == <<>>
Some(x) == <<x>>

\* --------------------------------------------------------------- strings
\* A string is the sequence of its characters.
White == {" ", "\t", "\n", "\r"}

RECURSIVE TrimStart(_)
TrimStart(s) ==
    IF s # <<>> /\ Head(s) \in White THEN TrimStart(Tail(s)) ELSE s

RECURSIVE TrimEnd(_)
TrimEnd(s) ==
    IF s # <<>> /\ s[Len(s)] \in White
    THEN TrimEnd(SubSeq(s, 1, Len(s) - 1)) ELSE s

\* String.prototype.trim
Trim(s) == TrimEnd(TrimStart(s))

\* s.split(' '): the pieces between single spaces, empty pieces included.
RECURSIVE Split(_)
Split(s) ==
    IF ~Includes(s, " ") THEN <<s>>
    ELSE LET i == IndexOf(s, " ") IN
         <<SubSeq(s, 1, i - 1)>> \o Split(SubSeq(s, i + 1, Len(s)))

\* tokens.join(' ')
RECURSIVE Join(_)
Join(toks) ==
    IF toks = <<>> THEN <<>>
    ELSE IF Len(toks) = 1 THEN toks[1]
    ELSE toks[1] \o <<" ">> \o Join(Tail(toks))

\* s.startsWith(pre)
StartsWith(s, pre) == Len(s) >= Len(pre) /\ SubSeq(s, 1, Len(pre)) = pre

\* s.includes(sub)
Contains(s, sub) ==
    \E i \in 0..(Len(s) - Len(sub)) : SubSeq(s, i + 1, i + Len(sub)) = sub

HexDigits == <<"0", "1", "2", "3", "4", "5", "6", "7", "8", "9",
               "a", "b", "c", "d", "e", "f">>
HexUpper == <<"A", "B", "C", "D", "E", "F">>

\* The value of a digit character; a character that is no digit has a value
\* above every radix.
DigitValue(c) ==
    IF Includes(HexDigits, c) THEN IndexOf(HexDigits, c) - 1
    ELSE IF Includes(HexUpper, c) THEN IndexOf(HexUpper, c) + 9
    ELSE 99

\* The longest prefix of s made of digits of radix R.
RECURSIVE DigitRun(_, _)
DigitRun(s, R) ==
    IF s # <<>> /\ DigitValue(Head(s)) < R
    THEN <<Head(s)>> \o DigitRun(Tail(s), R)
    ELSE <<>>

RECURSIVE RadixValue(_, _)
RadixValue(s, R) ==
    IF s = <<>> THEN 0
    ELSE RadixValue(SubSeq(s, 1, Len(s) - 1), R) * R + DigitValue(s[Len(s)])

\* NaN is a value outside the range of every integer the lines of this model
\* carry; arithmetic on it yields it.
NaN == 0 - 1073741824

\* parseInt(tok) without radix: leading white space is skipped, then a sign,
\* then a 0x prefix selects radix 16, then the longest run of digits is the
\* value; no digit at all gives NaN.  The rest of the token is ignored.
ParseInt(tok) ==
    LET s0 == TrimStart(tok)
        neg == s0 # <<>> /\ s0[1] = "-"
        s1 == IF s0 # <<>> /\ s0[1] \in {"+", "-"} THEN Tail(s0) ELSE s0
        hex == Len(s1) >= 2 /\ s1[1] = "0" /\ s1[2] \in {"x", "X"}
        R == IF hex THEN 16 ELSE 10
        s2 == IF hex THEN SubSeq(s1, 3, Len(s1)) ELSE s1
        run == DigitRun(s2, R)
    IN IF run = <<>> THEN NaN
       ELSE IF neg THEN 0 - RadixValue(run, R)
       ELSE RadixValue(run, R)

\* parts[i] of a JavaScript array, 0-based.  Past the end it is undefined,
\* which parses to NaN and equals no token.
Undef == <<"undefined">>
At(parts, i) == IF i + 1 \in 1..Len(parts) THEN parts[i + 1] ELSE Undef

\* ----------------------------------------------------------------- words
W_info == <<"i", "n", "f", "o">>
W_depth == <<"d", "e", "p", "t", "h">>
W_seldepth == <<"s", "e", "l", "d", "e", "p", "t", "h">>
W_score == <<"s", "c", "o", "r", "e">>
W_cp == <<"c", "p">>
W_mate == <<"m", "a", "t", "e">>
W_nodes == <<"n", "o", "d", "e", "s">>
W_time == <<"t", "i", "m", "e">>
W_nps == <<"n", "p", "s">>
W_multipv == <<"m", "u", "l", "t", "i", "p", "v">>
W_pv == <<"p", "v">>
W_bestmove == <<"b", "e", "s", "t", "m", "o", "v", "e">>
W_ponder == <<"p", "o", "n", "d", "e", "r">>
W_wdl == <<"w", "d", "l">>
W_string == <<"s", "t", "r", "i", "n", "g">>
W_currline == <<"c", "u", "r", "r", "l", "i", "n", "e">>
W_uciok == <<"u", "c", "i", "o", "k">>
W_readyok == <<"r", "e", "a", "d", "y", "o", "k">>
W_lowerbound == <<"l", "o", "w", "e", "r", "b", "o", "u", "n", "d">>

M_e2e4 == <<"e", "2", "e", "4">>
M_e7e5 == <<"e", "7", "e", "5">>
M_g1f3 == <<"g", "1", "f", "3">>
M_e7e8q == <<"e", "7", "e", "8", "q">>

\* The decimal numeral of an integer, as the engine prints it.
RECURSIVE Numeral(_)
Numeral(n) ==
    IF n < 0 THEN <<"-">> \o Numeral(0 - n)
    ELSE IF n < 10 THEN <<HexDigits[n + 1]>>
    ELSE Numeral(n \div 10) \o <<HexDigits[(n % 10) + 1]>>

\* ------------------------------------------------------------ input sets
\* A position as the application passes it: six fields, and the seventh
\* field of Ban Chess.
Fen6 == Join(<<<<"4", "k", "3", "/", "8", "/", "8", "/", "8", "/", "8", "/", "8", "/", "8", "/", "4", "K", "3">>, <<"w">>, <<"-">>, <<"-">>,
               <<"0">>, <<"1">>>>)
Fen7 == Fen6 \o <<" ">> \o <<"b", ":", "e", "2", "e", "4">>
EmptyPosition == <<>>                    \* currentPosition = ''
Fens == {Fen7}

\* new StockfishManager({ multiPV: 3, depth: 18, timeLimit: 3000 })
InitialConfig == [multiPV |-> 3, depth |-> 18, timeLimit |-> 3000]
WorkerDefaultConfig == [multiPV |-> 3, depth |-> 20, timeLimit |-> 3000]
Updates == {[multiPV |-> 5], [depth |-> 12, timeLimit |-> 1000]}

\* Lines the engine prints during a search.
InfoLine == Join(<<W_info, W_depth, Numeral(15), W_score, W_cp, Numeral(25),
                   W_nodes, Numeral(1000), W_time, Numeral(10), W_pv, M_e2e4,
                   M_e7e5>>)
BestLines == {Join(<<W_bestmove, M_e2e4>>),
              Join(<<W_bestmove, M_e2e4, W_ponder, M_e7e5>>),
              W_bestmove}

TimeoutError == "Stockfish initialization timeout"
CreateError == "Failed to create Stockfish instance"

\* What a subscriber's callback does when it is invoked.
HandlerActs == {"return", "throw", "analyze", "dispose", "subscribe",
                "unsubscribe"}

\* ---------------------------------------------------------------- parser
\* /^[a-h][1-8][a-h][1-8][qrbn]?$/
Files == {"a", "b", "c", "d", "e", "f", "g", "h"}
Ranks == {"1", "2", "3", "4", "5", "6", "7", "8"}
IsUciMove(part) ==
    /\ Len(part) \in {4, 5}
    /\ part[1] \in Files /\ part[2] \in Ranks
    /\ part[3] \in Files /\ part[4] \in Ranks
    /\ Len(part) = 5 => part[5] \in {"q", "r", "b", "n"}

PvStops == {W_wdl, W_string, W_currline}

\* A variant that skips a token that is no move and goes on.
RECURSIVE PvPrefix_SkipsInvalid(_)
PvPrefix_SkipsInvalid(toks) ==
    IF toks = <<>> THEN <<>>
    ELSE IF Len(Head(toks)) >= 4 /\ IsUciMove(Head(toks))
    THEN <<Head(toks)>> \o PvPrefix_SkipsInvalid(Tail(toks))
    ELSE PvPrefix_SkipsInvalid(Tail(toks))

\* The for loop at StockfishWorker.ts:49-61 over the tokens after pv: it
\* stops at a token that starts with an alternate-field keyword and at a
\* token that is no move.
RECURSIVE PvPrefix(_)
PvPrefix(toks) ==
    IF toks = <<>> THEN <<>>
    ELSE IF \E stop \in PvStops : StartsWith(Head(toks), stop) THEN <<>>
    ELSE IF Len(Head(toks)) >= 4 /\ IsUciMove(Head(toks))
    THEN <<Head(toks)>> \o PvPrefix(Tail(toks))
    ELSE <<>>

PvLimit == 10

\* A variant that takes the token after the move for the ponder move.
BestMoveMessage_PonderIndex(parts) ==
    [type |-> "BEST_MOVE",
     move |-> parts[2],
     ponder |-> IF Len(parts) >= 3 THEN Some(parts[3]) ELSE Undefined,
     mock |-> FALSE]

\* The BEST_MOVE message of a bestmove line: parts[1] is the move, parts[3]
\* the ponder move (0-based).
BestMoveMessage(parts) ==
    [type |-> "BEST_MOVE",
     move |-> parts[2],
     ponder |-> IF Len(parts) >= 4 THEN Some(parts[4]) ELSE Undefined,
     mock |-> FALSE]

\* A variant that asks for the depth token only.
IsInfoLine_DepthOnly(parts) ==
    parts[1] = W_info /\ Includes(parts, W_depth)

\* parts[0] === 'info' && parts.includes('depth') && parts.includes('score')
IsInfoLine(parts) ==
    parts[1] = W_info /\ Includes(parts, W_depth) /\ Includes(parts, W_score)

\* A variant whose default is 0 for every keyword.
NumberAfter_ZeroDefault(parts, word, default) ==
    IF IndexOf(parts, word) - 1 >= 0
    THEN ParseInt(At(parts, IndexOf(parts, word)))
    ELSE 0

\* index >= 0 ? parseInt(parts[index + 1]) : default, index being
\* parts.indexOf(word).
NumberAfter(parts, word, default) ==
    IF IndexOf(parts, word) - 1 >= 0
    THEN ParseInt(At(parts, IndexOf(parts, word)))
    ELSE default

\* A variant that counts a mate from 20000 down by one per move.
MateScore_ByOne(mate) ==
    IF mate = NaN THEN NaN
    ELSE IF mate > 0 THEN 20000 - mate
    ELSE (0 - 20000) - mate

\* mate > 0 ? 20000 - mate * 2 : -20000 - mate * 2
MateScore(mate) ==
    IF mate = NaN THEN NaN
    ELSE IF mate > 0 THEN 20000 - mate * 2
    ELSE (0 - 20000) - mate * 2

\* A variant that reads the centipawn value one token early.
ParseScore_CpOffByOne(parts, scoreIndex) ==
    IF At(parts, scoreIndex + 1) = W_cp
    THEN [score |-> ParseInt(At(parts, scoreIndex + 1)), mate |-> Undefined]
    ELSE IF At(parts, scoreIndex + 1) = W_mate
    THEN [score |-> MateScore(ParseInt(At(parts, scoreIndex + 2))),
          mate |-> Some(ParseInt(At(parts, scoreIndex + 2)))]
    ELSE [score |-> 0, mate |-> Undefined]

\* "Parse score", StockfishWorker.ts:35-43: score and mate of the line.
ParseScore(parts, scoreIndex) ==
    IF At(parts, scoreIndex + 1) = W_cp
    THEN [score |-> ParseInt(At(parts, scoreIndex + 2)), mate |-> Undefined]
    ELSE IF At(parts, scoreIndex + 1) = W_mate
    THEN [score |-> MateScore(ParseInt(At(parts, scoreIndex + 2))),
          mate |-> Some(ParseInt(At(parts, scoreIndex + 2)))]
    ELSE [score |-> 0, mate |-> Undefined]

\* handleUCIMessage: the messages (none or one) the worker posts to the main
\* thread for one line of engine output.  Nothing in the try block throws:
\* parseInt yields NaN for a token that is no number.
handleUCIMessage(message) ==
    LET parts == Split(Trim(message)) IN
    IF IsInfoLine(parts)
    THEN LET depthIndex == IndexOf(parts, W_depth) - 1
             scoreIndex == IndexOf(parts, W_score) - 1
             pvIndex == IndexOf(parts, W_pv) - 1
             s == ParseScore(parts, scoreIndex)
             pv == IF pvIndex >= 0
                   THEN PvPrefix(SubSeq(parts, pvIndex + 2, Len(parts)))
                   ELSE <<>>
         IN <<[type |-> "ANALYSIS",
               evaluation |->
                   [score |-> s.score,
                    depth |-> ParseInt(At(parts, depthIndex + 1)),
                    nodes |-> NumberAfter(parts, W_nodes, 0),
                    time |-> NumberAfter(parts, W_time, 0),
                    nps |-> NumberAfter(parts, W_nps, 0),
                    pv |-> Slice(pv, PvLimit),
                    mate |-> s.mate],
               multiPV |-> NumberAfter(parts, W_multipv, 1),
               mock |-> FALSE]>>
    ELSE IF parts[1] = W_bestmove /\ At(parts, 1) # Undef
            /\ At(parts, 1) # <<>>
    THEN <<BestMoveMessage(parts)>>
    ELSE <<>>

\* A variant that keeps five fields.
convertBanChessFEN_FiveFields(banChessFEN) ==
    LET parts == Split(banChessFEN) IN
    IF Len(parts) > 6 THEN Join(Slice(parts, 5)) ELSE banChessFEN

\* convertBanChessFEN: the position adapter.
convertBanChessFEN(banChessFEN) ==
    LET parts == Split(banChessFEN) IN
    IF Len(parts) > 6 THEN Join(Slice(parts, 6)) ELSE banChessFEN

\* ------------------------------------------------- lines the engine says
\* The parser and the position adapter are functions of one string.  They
\* are exercised on lines and positions that are described first (which
\* keyword, which value, in which place) and then printed, so that what was
\* parsed can be compared with what was said.
MaxMate == 3         \* mate distances -MaxMate..MaxMate
MaxPv == 11          \* moves after pv
MaxLines == 2        \* lines of one stream
MaxFenFields == 8    \* fields of a position

FieldNames == <<"depth", "score", "nodes", "time", "nps", "multipv">>

FieldWord(name) ==
    CASE name = "depth" -> W_depth
      [] name = "score" -> W_score
      [] name = "nodes" -> W_nodes
      [] name = "time" -> W_time
      [] name = "nps" -> W_nps
      [] name = "multipv" -> W_multipv

\* A value is the token that is printed and the integer it stands for, if
\* it stands for one.  kind is the token between score and the value.
IntValue(n) == [kind |-> <<>>, tok |-> Numeral(n), int |-> Some(n)]
RawValue(tok) == [kind |-> <<>>, tok |-> tok, int |-> Undefined]
Cp(v) == [v EXCEPT !.kind = W_cp]
Mate(v) == [v EXCEPT !.kind = W_mate]

NotANumber == {<<"a", "b", "c">>, <<>>, <<"-">>}
DepthValues == {IntValue(15), IntValue(1)} \cup {RawValue(t) : t \in NotANumber}
ScoreValues ==
    {Cp(IntValue(x)) : x \in {25, 0 - 130, 0}}
    \cup {Mate(IntValue(n)) : n \in (0 - MaxMate)..MaxMate}
    \cup {Cp(RawValue(t)) : t \in NotANumber}
    \cup {Mate(RawValue(t)) : t \in NotANumber}
    \cup {[kind |-> W_lowerbound, tok |-> Numeral(25), int |-> Some(25)]}

\* The values of the six fields: the depth, the score and one of two sets
\* of counters.
Values(depth, score, alt) ==
    [name \in {FieldNames[i] : i \in 1..Len(FieldNames)} |->
        CASE name = "depth" -> depth
          [] name = "score" -> score
          [] name = "nodes" -> IntValue(IF alt = 1 THEN 1000000 ELSE 52)
          [] name = "time" -> IntValue(IF alt = 1 THEN 1000 ELSE 7)
          [] name = "nps" -> IntValue(IF alt = 1 THEN 1000000 ELSE 7428)
          [] name = "multipv" -> IntValue(IF alt = 1 THEN 1 ELSE 3)]

Rotate(s, r) ==
    [i \in 1..Len(s) |-> s[((i - 1 + r) % Len(s)) + 1]]

Among(s, has) == SelectSeq(s, LAMBDA x : x \in has)

MoveCycle == <<M_e2e4, M_e7e5, M_g1f3, M_e7e8q>>
Moves(n) == [i \in 1..n |-> MoveCycle[((i - 1) % Len(MoveCycle)) + 1]]

\* Tokens that end a principal variation: the alternate fields, a token that
\* starts like one, and tokens that are no moves.
PvEnders == {W_wdl, W_string, W_currline, W_wdl \o <<"x">>,
             <<"e", "9", "e", "4">>, <<"e", "2", "e", "4", "k">>,
             <<"e", "2", "e", "4", "q", "q">>, <<"E", "2", "E", "4">>,
             <<"e", "2">>, <<>>}

\* The tokens after pv: n moves, then nothing more, or an ender and one
\* more move.
PvTail(n, ender) == [moves |-> n, ender |-> ender]
PvTokens(tail) ==
    Moves(tail.moves)
    \o (IF tail.ender = Undefined THEN <<>> ELSE <<tail.ender[1], M_e2e4>>)
PvTails ==
    {PvTail(n, Undefined) : n \in 0..MaxPv}
    \cup {PvTail(n, Some(e)) : n \in {0, 2, MaxPv}, e \in PvEnders}

\* An info-shaped line: the head token, the fields in their order, and the
\* pv section, if any, after the first pvAt fields.
FieldLine(head, order, val, pv, pvAt) ==
    [shape |-> "fields", head |-> head, order |-> order, val |-> val,
     pv |-> pv, pvAt |-> IF pvAt > Len(order) THEN Len(order) ELSE pvAt]
\* Any other line, by its tokens.
PlainLine(tokens) == [shape |-> "plain", tokens |-> tokens]

FieldTokens(d, name) ==
    IF name = "score"
    THEN <<W_score, d.val[name].kind, d.val[name].tok>>
    ELSE <<FieldWord(name), d.val[name].tok>>

RECURSIVE FieldsTokens(_, _)
FieldsTokens(d, names) ==
    IF names = <<>> THEN <<>>
    ELSE FieldTokens(d, Head(names)) \o FieldsTokens(d, Tail(names))

\* The tokens of a line, and the line as the engine prints it.
LineTokens(d) ==
    IF d.shape = "plain" THEN d.tokens
    ELSE <<d.head>>
         \o FieldsTokens(d, SubSeq(d.order, 1, d.pvAt))
         \o (IF d.pv = Undefined THEN <<>>
             ELSE <<W_pv>> \o PvTokens(d.pv[1]))
         \o FieldsTokens(d, SubSeq(d.order, d.pvAt + 1, Len(d.order)))

Printed(d) == Join(LineTokens(d))

BaseScore == Cp(IntValue(25))
BasePv == PvTail(3, Undefined)
AllFields == {FieldNames[i] : i \in 1..Len(FieldNames)}

\* The line of the parser's scenario:
\* info depth 15 score cp 25 nodes 1000000 time 1000 nps 1000000 multipv 1
\* pv e2e4 e7e5 g1f3
ScenarioLine ==
    FieldLine(W_info, FieldNames, Values(IntValue(15), BaseScore, 1),
              Some(BasePv), Len(FieldNames))

\* Lines with every choice and order of fields.
FieldLines ==
    {FieldLine(W_info, Among(Rotate(FieldNames, r), has),
               Values(dv, BaseScore, alt), Some(BasePv), at) :
        r \in 0..(Len(FieldNames) - 1), has \in SUBSET AllFields,
        dv \in DepthValues, alt \in {1, 2}, at \in {1, Len(FieldNames)}}
\* Lines with every score.
ScoreLines ==
    {FieldLine(W_info, Rotate(FieldNames, r), Values(IntValue(15), sv, 1),
               pv, Len(FieldNames)) :
        r \in {0, 1, 5}, sv \in ScoreValues, pv \in {Undefined, Some(BasePv)}}
\* Lines with every principal variation.
PvLines ==
    {FieldLine(W_info, SubSeq(FieldNames, 1, n),
               Values(IntValue(15), BaseScore, 2), Some(tail), 2) :
        n \in {2, 4}, tail \in PvTails}
\* Lines whose first token is not info, and lines of other shapes.
OtherLines ==
    {FieldLine(head, FieldNames, Values(IntValue(15), BaseScore, 1),
               Some(BasePv), Len(FieldNames)) :
        head \in {W_string, W_uciok, <<>>, W_info \o <<"x">>}}
    \cup {PlainLine(t) : t \in {<<W_uciok>>, <<W_readyok>>, <<<<>>>>,
                                <<W_info>>, <<W_info, W_string, W_depth>>,
                                <<W_bestmove>>, <<W_bestmove, <<>>, M_e2e4>>,
                                <<W_bestmove, M_e2e4>>,
                                <<W_bestmove, M_e2e4, W_ponder, M_e7e5>>}}

Said == FieldLines \cup ScoreLines \cup PvLines \cup OtherLines
FollowUps == {ScenarioLine, PlainLine(<<W_bestmove, M_e2e4>>)}

\* Positions: the first n of these fields, and the same with an empty field
\* (two spaces in a row) in second place.
FenFieldList ==
    <<<<"4", "k", "3", "/", "8">>, <<"w">>, <<"K", "Q">>, <<"-">>, <<"0">>,
      <<"1">>, <<"b", ":", "e", "2", "e", "4">>, <<"x">>, <<"y">>>>
FenFields ==
    {SubSeq(FenFieldList, 1, n) : n \in 1..MaxFenFields}
    \cup {<<FenFieldList[1], <<>>>> \o SubSeq(FenFieldList, 2, n) :
             n \in 1..(MaxFenFields - 2)}

\* ----------------------------------------------------------------- state
VARIABLES
    \* StockfishManager (main thread)
    stockfishWorker,   \* the worker the Session refers to, NoWorker for null
    eventHandlers,     \* the subscriber registry, in subscription order
    config,            \* StockfishConfig
    isInitialized,
    promise,           \* per initialize() attempt: the promise it awaits
    timer,             \* per attempt: the 10000 ms setTimeout
    readyHandler,      \* per attempt: readyHandler is a listener of its worker
    em,                \* the emit() call in progress on the main thread
    \* Stockfish worker, one per new Worker(...)
    wk,                \* module state of the worker script (configUpdates
                       \* counts the UPDATE_CONFIG messages it applied)
    inbox,             \* messages posted to the worker, not yet handled
    outbox,            \* messages the worker posted, not yet handled
    eng,               \* the UCI engine inside the worker
    \* observation
    uncaught,          \* where an exception left a callback uncaught
    calls,             \* calls made on the Session so far
    epoch,             \* dispose() calls so far
    disposed,          \* dispose() was called and initialize() not since
    lateCalls,         \* commands called since that dispose()
    readyEmitted,      \* per attempt: ready events emitted
    bestInFlight,      \* per worker: bestmove lines with a move token the
                       \* engine printed, less the bestMove events emitted
                       \* for them and the messages terminate() discarded
    preReadyEffect,    \* the worker acted on an analysis command that was
                       \* called before the Session was ready
    \* the parser and the position adapter taken alone
    said,              \* the line the engine prints, as described
    engineLine,        \* the line as printed
    handled,           \* handleUCIMessage has run on engineLine
    posted,            \* the messages it posted
    lineNo,            \* the place of the line in its stream
    banFields,         \* the fields of a position
    banFen,            \* the position as passed to the adapter
    standardFen,       \* what the adapter returned
    \* the iterative-search worker
    engine,            \* engine !== null
    engineV2,          \* engineV2 !== null
    currentAnalysis,
    isSearching,
    searchStartTime,
    now,               \* Date.now()
    swInbox,           \* messages posted to the worker, not yet handled
    swOutbox,          \* the messages the worker posted since its last
                       \* message was taken from the queue, in order
    find,              \* the FIND_BEST_MOVE handler that is running
    posts,             \* messages posted to the worker so far
    \* AnalysisPanel
    engineLines,       \* useState<EngineLine[]>([])
    selectedLineId,    \* useState<string>('1')
    panelPrev,         \* engineLines before the last evaluation event
    panelEvent         \* the last evaluation event, if any

mgrVars == <<stockfishWorker, eventHandlers, config, isInitialized, promise,
             timer, readyHandler>>
wkVars == <<wk, inbox, outbox, eng>>
obsVars == <<uncaught, epoch, disposed, lateCalls, readyEmitted, bestInFlight,
             preReadyEffect>>
vars == <<stockfishWorker, eventHandlers, config, isInitialized, promise,
          timer, readyHandler, em, wk, inbox, outbox, eng, uncaught, calls,
          epoch, disposed, lateCalls, readyEmitted, bestInFlight,
          preReadyEffect>>

pureVars == <<said, engineLine, handled, posted, lineNo, banFields, banFen,
              standardFen>>

searchVars == <<engine, engineV2, currentAnalysis, isSearching,
                searchStartTime, now, swInbox, swOutbox, find, posts>>

panelVars == <<engineLines, selectedLineId, panelPrev, panelEvent>>

\* What the steps of one part leave alone: the variables of the other parts.
offSession == <<pureVars, searchVars, panelVars>>
offParser == <<vars, searchVars, panelVars>>
offSearch == <<vars, pureVars, panelVars>>
offPanel == <<vars, pureVars, searchVars>>

IdleEm == [active |-> FALSE, event |-> [type |-> "none"], k |-> 0, len |-> 0,
           detached |-> FALSE, arr |-> <<>>, after |-> "none", w |-> 0,
           error |-> "", src |-> <<>>, late |-> FALSE, startEpoch |-> 0,
           snapshot |-> <<>>,
           delivered |-> <<>>, spliced |-> FALSE, threwAt |-> 0]

FreshWorker == [st |-> "none", pc |-> "idle", stockfish |-> FALSE,
                isInitialized |-> FALSE, uciOk |-> FALSE,
                initHandler |-> FALSE, currentPosition |-> EmptyPosition,
                analysisConfig |-> WorkerDefaultConfig, timers |-> <<>>,
                configUpdates |-> 0]

FreshEngine == [kind |-> "none", uciPending |-> FALSE, readyPending |-> FALSE,
                readyokSent |-> FALSE, searching |-> FALSE, stale |-> FALSE,
                infoLeft |-> 0, log |-> <<>>]

SessionInit ==
    /\ stockfishWorker = NoWorker
    /\ eventHandlers = <<>>
    /\ config = InitialConfig
    /\ isInitialized = FALSE
    /\ promise = [w \in Workers |-> [state |-> "none", error |-> ""]]
    /\ timer = [w \in Workers |-> "none"]
    /\ readyHandler = [w \in Workers |-> FALSE]
    /\ em = IdleEm
    /\ wk = [w \in Workers |-> FreshWorker]
    /\ inbox = [w \in Workers |-> <<>>]
    /\ outbox = [w \in Workers |-> <<>>]
    /\ eng = [w \in Workers |-> FreshEngine]
    /\ uncaught = {}
    /\ calls = 0
    /\ epoch = 0
    /\ disposed = FALSE
    /\ lateCalls = 0
    /\ readyEmitted = [w \in Workers |-> 0]
    /\ bestInFlight = [w \in Workers |-> 0]
    /\ preReadyEffect = FALSE


EngineLineIdle ==
    /\ said = PlainLine(<<>>)
    /\ engineLine = <<>>
    /\ handled = FALSE
    /\ posted = <<>>
    /\ lineNo = 0

PositionIdle ==
    /\ banFields = <<>>
    /\ banFen = <<>>
    /\ standardFen = Undefined

\* ------------------------------------------- iterative-search worker
\* The worker of the Ban Chess engine (engineWorker): self.onmessage handles
\* one message at a time and runs to completion; the FIND_BEST_MOVE handler
\* contains no await, so its depth loop is one task of the worker.  It is
\* modelled one depth at a time so that what the main thread posts meanwhile
\* is seen to wait in the queue.  BanChess and BanChessEngineV2 belong to
\* the library ban-chess.ts; what they return is chosen freely.
MaxPosts == 3        \* messages posted to the search worker

SearchCap == 500     \* Math.min(500, ...)
DefaultDepth == 6    \* payload.depth || 6

FindPayloads ==
    {[fen |-> "valid", timeLimit |-> 1000],
     [fen |-> "valid", timeLimit |-> 3000, depth |-> 2],
     [fen |-> "invalid", timeLimit |-> 3000]}

SearchMessages ==
    {[type |-> "INIT", payload |-> [depth |-> 6, timeLimit |-> 3000]],
     [type |-> "STOP"],
     [type |-> "GET_TT_STATS"],
     [type |-> "ANALYZE_POSITION", payload |-> [fen |-> "valid"]]}
    \cup {[type |-> "FIND_BEST_MOVE", payload |-> p] : p \in FindPayloads}

\* What one call of engineV2.search does: it returns a line of actions, or
\* throws, after so many ms.
SearchOutcomes ==
    {[threw |-> FALSE, pv |-> <<"a1">>, took |-> 100],
     [threw |-> FALSE, pv |-> <<"b1", "b2", "b3", "b4", "b5", "b6">>,
      took |-> 600],
     [threw |-> FALSE, pv |-> <<>>, took |-> 100],
     [threw |-> FALSE, pv |-> <<>>, took |-> 600],
     [threw |-> TRUE, pv |-> <<>>, took |-> 100]}

IdleFind == [active |-> FALSE, depth |-> 0, maxDepth |-> 0, timeLimit |-> 0,
             bestAction |-> Undefined, bestScore |-> 0, totalNodes |-> 0,
             broke |-> FALSE, searches |-> <<>>, stopRequested |-> FALSE,
             lateDepths |-> 0]

SearchInit ==
    /\ engine = FALSE
    /\ engineV2 = FALSE
    /\ currentAnalysis = Undefined
    /\ isSearching = FALSE
    /\ searchStartTime = 0
    /\ now = 0
    /\ swInbox = <<>>
    /\ swOutbox = <<>>
    /\ find = IdleFind
    /\ posts = 0

\* ------------------------------------------------------- AnalysisPanel
\* The list of engine lines the panel keeps from the evaluation events of
\* the Session.  The ranks are the integers a UCI engine prints after
\* multipv; an error event is only logged and changes nothing.
MaxRank == 3         \* ranks of the evaluation events

PanelRanks == 1..MaxRank
PanelEvaluations == {[score |-> 25, depth |-> 15],
                     [score |-> 0 - 30, depth |-> 16]}
PanelEvents ==
    {[type |-> "evaluation", evaluation |-> e, multiPV |-> r] :
        e \in PanelEvaluations, r \in PanelRanks}

InitialSelection == <<"1">>              \* useState<string>('1')

PanelInit ==
    /\ engineLines = <<>>
    /\ selectedLineId = InitialSelection
    /\ panelPrev = <<>>
    /\ panelEvent = Undefined

\* `stockfish-${event.multiPV}`
LineId(multiPV) ==
    <<"s", "t", "o", "c", "k", "f", "i", "s", "h", "-">> \o Numeral(multiPV)

\* prev.findIndex(line => line.id === lineId), 1-based; 0 stands for -1.
FindIndex(lines, lineId) ==
    IF \E i \in 1..Len(lines) : lines[i].id = lineId
    THEN CHOOSE i \in 1..Len(lines) :
             /\ lines[i].id = lineId
             /\ \A j \in 1..(i - 1) : lines[j].id # lineId
    ELSE 0

\* lines.sort((a, b) => a.multipv - b.multipv): a stable sort, computed by
\* insertion.
RECURSIVE InsertByRank(_, _)
InsertByRank(sorted, line) ==
    IF sorted = <<>> THEN <<line>>
    ELSE IF line.multipv - Head(sorted).multipv < 0
    THEN <<line>> \o sorted
    ELSE <<Head(sorted)>> \o InsertByRank(Tail(sorted), line)

RECURSIVE SortByRank(_)
SortByRank(lines) ==
    IF lines = <<>> THEN <<>>
    ELSE InsertByRank(SortByRank(SubSeq(lines, 1, Len(lines) - 1)),
                      lines[Len(lines)])

\* A variant that appends a new line without sorting.
NextLines_Appends(prev, event, selected) ==
    LET lineId == LineId(event.multiPV)
        existingIndex == FindIndex(prev, lineId)
        newLine == [id |-> lineId, evaluation |-> event.evaluation,
                    multipv |-> event.multiPV,
                    isSelected |-> (selected = lineId)]
    IN IF existingIndex >= 1
       THEN [prev EXCEPT ![existingIndex] = newLine]
       ELSE Append(prev, newLine)

\* The updater passed to setEngineLines for an evaluation event.
NextLines(prev, event, selected) ==
    LET lineId == LineId(event.multiPV)
        existingIndex == FindIndex(prev, lineId)
        newLine == [id |-> lineId, evaluation |-> event.evaluation,
                    multipv |-> event.multiPV,
                    isSelected |-> (selected = lineId)]
    IN IF existingIndex >= 1
       THEN [prev EXCEPT ![existingIndex] = newLine]
       ELSE SortByRank(Append(prev, newLine))


\* A new StockfishManager and a new search worker; the engine has printed
\* no line and no position was passed.
Init ==
    SessionInit /\ EngineLineIdle /\ PositionIdle /\ SearchInit /\ PanelInit

Created == {w \in Workers : wk[w].st # "none"}
Alive == {w \in Workers : wk[w].st = "alive"}

\* The array emit()'s forEach iterates: this.eventHandlers as it was when
\* emit() was called.  dispose() assigns a new array to the field, which
\* detaches the one being iterated; every other change is made in place.
EmArr == IF em.detached THEN em.arr ELSE eventHandlers

\* Neither the Session's flag nor a ready event says the Session is ready.
NotYetReady ==
    /\ ~isInitialized
    /\ stockfishWorker # NoWorker => readyEmitted[stockfishWorker] = 0

\* ------------------------------------------------- StockfishManager calls
\* Each operator is the body of one method: it constrains every variable
\* but em and calls, which belong to the caller's step.

\* stockfishWorker.postMessage(m) behind the null check of the methods.
PostIfWorker(m) ==
    IF stockfishWorker = NoWorker THEN inbox
    ELSE [inbox EXCEPT ![stockfishWorker] = Append(@, m)]

\* analyzePosition and findBestMove return early unless the Session is
\* initialized and has a worker.
CommandAccepted == isInitialized /\ stockfishWorker # NoWorker

RoomToPost ==
    stockfishWorker # NoWorker => Len(inbox[stockfishWorker]) < MaxQueue

initialize ==
    IF isInitialized
    THEN UNCHANGED <<mgrVars, wkVars, obsVars>>
    ELSE LET w == Cardinality(Created) + 1 IN
         /\ w \in Workers
         /\ stockfishWorker' = w
         /\ wk' = [wk EXCEPT ![w].st = "alive"]
         /\ inbox' = [inbox EXCEPT ![w] =
                         <<[type |-> "INIT", payload |-> config,
                            pre |-> FALSE]>>]
         /\ readyHandler' = [readyHandler EXCEPT ![w] = TRUE]
         /\ timer' = [timer EXCEPT ![w] = "armed"]
         /\ promise' = [promise EXCEPT ![w] =
                           [state |-> "pending", error |-> ""]]
         /\ disposed' = FALSE
         /\ lateCalls' = 0
         /\ UNCHANGED <<eventHandlers, config, isInitialized, outbox, eng,
                        uncaught, epoch, readyEmitted, bestInFlight,
                        preReadyEffect>>

analyzePosition(fen) ==
    /\ inbox' = IF CommandAccepted
                THEN PostIfWorker([type |-> "ANALYZE_POSITION", fen |-> fen,
                                   pre |-> NotYetReady])
                ELSE inbox
    /\ lateCalls' = IF disposed THEN lateCalls + 1 ELSE lateCalls
    /\ UNCHANGED <<mgrVars, wk, outbox, eng, uncaught, epoch, disposed, readyEmitted,
                   bestInFlight, preReadyEffect>>

findBestMove(fen) ==
    /\ inbox' = IF CommandAccepted
                THEN PostIfWorker([type |-> "FIND_BEST_MOVE", fen |-> fen,
                                   timeLimit |-> config.timeLimit,
                                   pre |-> NotYetReady])
                ELSE inbox
    /\ lateCalls' = IF disposed THEN lateCalls + 1 ELSE lateCalls
    /\ UNCHANGED <<mgrVars, wk, outbox, eng, uncaught, epoch, disposed, readyEmitted,
                   bestInFlight, preReadyEffect>>

stop ==
    /\ inbox' = PostIfWorker([type |-> "STOP", pre |-> NotYetReady])
    /\ lateCalls' = IF disposed THEN lateCalls + 1 ELSE lateCalls
    /\ UNCHANGED <<mgrVars, wk, outbox, eng, uncaught, epoch, disposed, readyEmitted,
                   bestInFlight, preReadyEffect>>

updateConfig(updates) ==
    /\ config' = Merge(config, updates)
    /\ inbox' = PostIfWorker([type |-> "UPDATE_CONFIG", payload |-> updates,
                              pre |-> NotYetReady])
    /\ lateCalls' = IF disposed THEN lateCalls + 1 ELSE lateCalls
    /\ UNCHANGED <<stockfishWorker, eventHandlers, isInitialized, promise,
                   timer, readyHandler, wk, outbox, eng, uncaught, epoch, disposed, readyEmitted,
                   bestInFlight, preReadyEffect>>

\* A variant that terminates the worker but keeps the reference to it.
dispose_KeepsWorker ==
    /\ IF stockfishWorker # NoWorker
       THEN /\ wk' = [wk EXCEPT ![stockfishWorker].st = "dead"]
            /\ inbox' = [inbox EXCEPT ![stockfishWorker] = <<>>]
            /\ outbox' = [outbox EXCEPT ![stockfishWorker] = <<>>]
            /\ bestInFlight' = [bestInFlight EXCEPT ![stockfishWorker] = 0]
       ELSE UNCHANGED <<wk, inbox, outbox, bestInFlight>>
    /\ eventHandlers' = <<>>
    /\ isInitialized' = FALSE
    /\ epoch' = epoch + 1
    /\ disposed' = TRUE
    /\ lateCalls' = IF disposed THEN lateCalls + 1 ELSE lateCalls
    /\ UNCHANGED <<stockfishWorker, config, promise, timer, readyHandler,
                   eng, uncaught, readyEmitted, preReadyEffect>>

\* worker.terminate(): the worker stops and the messages in flight in both
\* directions are discarded.
dispose ==
    /\ IF stockfishWorker # NoWorker
       THEN /\ wk' = [wk EXCEPT ![stockfishWorker].st = "dead"]
            /\ inbox' = [inbox EXCEPT ![stockfishWorker] = <<>>]
            /\ outbox' = [outbox EXCEPT ![stockfishWorker] = <<>>]
            /\ bestInFlight' = [bestInFlight EXCEPT ![stockfishWorker] = 0]
       ELSE UNCHANGED <<wk, inbox, outbox, bestInFlight>>
    /\ stockfishWorker' = NoWorker
    /\ eventHandlers' = <<>>
    /\ isInitialized' = FALSE
    /\ epoch' = epoch + 1
    /\ disposed' = TRUE
    /\ lateCalls' = IF disposed THEN lateCalls + 1 ELSE lateCalls
    /\ UNCHANGED <<config, promise, timer, readyHandler, eng, uncaught,
                   readyEmitted, preReadyEffect>>

onEvent(h) ==
    /\ Len(eventHandlers) < MaxHandlers
    /\ eventHandlers' = Append(eventHandlers, [h |-> h, epoch |-> epoch])
    /\ UNCHANGED <<stockfishWorker, config, isInitialized, promise, timer,
                   readyHandler, wkVars, obsVars>>

\* The function onEvent(h) returned: indexOf(handler), then splice.
HandlerIndex(h) ==
    IF \E i \in 1..Len(eventHandlers) : eventHandlers[i].h = h
    THEN CHOOSE i \in 1..Len(eventHandlers) :
             /\ eventHandlers[i].h = h
             /\ \A j \in 1..(i - 1) : eventHandlers[j].h # h
    ELSE 0

unsubscribe(h) ==
    /\ eventHandlers' = IF HandlerIndex(h) > 0
                        THEN RemoveAt(eventHandlers, HandlerIndex(h))
                        ELSE eventHandlers
    /\ UNCHANGED <<stockfishWorker, config, isInitialized, promise, timer,
                   readyHandler, wkVars, obsVars>>

\* ---------------------------------------------------------- emit (fan-out)
\* emit(event): this.eventHandlers.forEach(handler => try { handler(event) }
\* catch ...).  forEach reads the array's length once, visits the indices
\* 0..length-1 in order and skips an index the array no longer has.
StartEmit(event, after, w, error, src, late) ==
    [active |-> TRUE, event |-> event, k |-> 0, len |-> Len(eventHandlers),
     detached |-> FALSE, arr |-> <<>>, after |-> after, w |-> w,
     error |-> error, src |-> src, late |-> late, startEpoch |-> epoch,
     snapshot |-> eventHandlers, delivered |-> <<>>, spliced |-> FALSE,
     threwAt |-> 0]

\* The handler at index idx was called; it returns or throws later.
Called(e, idx, entry) ==
    [e EXCEPT !.k = idx, !.delivered = Append(@, entry)]

\* A variant without the try/catch: the exception ends forEach and leaves
\* emit.
HandlerThrew_NoCatch(e, idx) ==
    [em |-> [e EXCEPT !.threwAt = IF @ = 0 THEN idx ELSE @, !.k = e.len],
     escaped |-> TRUE]

\* The catch clause of emit: the exception of the handler at idx is logged,
\* the iteration goes on, nothing leaves emit.
HandlerThrew(e, idx) ==
    [em |-> [e EXCEPT !.threwAt = IF @ = 0 THEN idx ELSE @],
     escaped |-> FALSE]

\* One index of the forEach, with what the handler does.
HandlerStep(act) ==
    /\ em.active
    /\ UNCHANGED offSession
    /\ em.k < em.len
    /\ LET idx == em.k + 1
           arr == EmArr
       IN IF idx > Len(arr)
          THEN /\ act = "return"
               /\ em' = [em EXCEPT !.k = idx]
               /\ UNCHANGED <<mgrVars, wkVars, obsVars, calls>>
          ELSE LET e1 == Called(em, idx, arr[idx]) IN
               CASE act = "return" ->
                      /\ em' = e1
                      /\ UNCHANGED <<mgrVars, wkVars, obsVars, calls>>
                 [] act = "throw" ->
                      /\ em' = HandlerThrew(e1, idx).em
                      /\ uncaught' = IF HandlerThrew(e1, idx).escaped
                                     THEN uncaught \cup {"emit"}
                                     ELSE uncaught
                      /\ UNCHANGED <<mgrVars, wkVars, calls, epoch, disposed,
                                     lateCalls, readyEmitted, bestInFlight,
                                     preReadyEffect>>
                 [] act = "analyze" ->
                      /\ calls < MaxCalls
                      /\ RoomToPost
                      /\ \E fen \in Fens : analyzePosition(fen)
                      /\ calls' = calls + 1
                      /\ em' = e1
                 [] act = "dispose" ->
                      /\ calls < MaxCalls
                      /\ dispose
                      /\ calls' = calls + 1
                      /\ em' = [e1 EXCEPT !.detached = TRUE, !.arr = arr]
                 [] act = "subscribe" ->
                      /\ calls < MaxCalls
                      /\ \E h \in Handlers : onEvent(h)
                      /\ calls' = calls + 1
                      /\ em' = e1
                 [] act = "unsubscribe" ->
                      /\ calls < MaxCalls
                      /\ \E h \in Handlers :
                            /\ unsubscribe(h)
                            /\ em' = [e1 EXCEPT !.spliced =
                                         @ \/ (~em.detached
                                               /\ HandlerIndex(h) > 0)]
                      /\ calls' = calls + 1

\* forEach is over.  The code after emit in the same callback runs, and the
\* microtask it queues: resolve() lets initialize() go on to
\* this.isInitialized = true, reject() makes initialize() throw.
EmitDone ==
    /\ em.active
    /\ UNCHANGED offSession
    /\ em.k = em.len
    /\ em' = IdleEm
    /\ IF em.after # "none" /\ promise[em.w].state = "pending"
       THEN IF em.after = "resolve"
            THEN /\ promise' = [promise EXCEPT ![em.w].state = "resolved"]
                 /\ isInitialized' = TRUE
            ELSE /\ promise' = [promise EXCEPT ![em.w] =
                                   [state |-> "rejected", error |-> em.error]]
                 /\ UNCHANGED isInitialized
       ELSE UNCHANGED <<promise, isInitialized>>
    /\ UNCHANGED <<stockfishWorker, eventHandlers, config, timer,
                   readyHandler, wkVars, obsVars, calls>>

\* --------------------------------------------- calls of the application
AppCall == ~em.active /\ calls < MaxCalls /\ UNCHANGED offSession

Initialize ==
    /\ AppCall
    /\ initialize
    /\ calls' = calls + 1
    /\ UNCHANGED em

AnalyzePosition(fen) ==
    /\ AppCall /\ RoomToPost
    /\ analyzePosition(fen)
    /\ calls' = calls + 1
    /\ UNCHANGED em

FindBestMove(fen) ==
    /\ AppCall /\ RoomToPost
    /\ findBestMove(fen)
    /\ calls' = calls + 1
    /\ UNCHANGED em

Stop ==
    /\ AppCall /\ RoomToPost
    /\ stop
    /\ calls' = calls + 1
    /\ UNCHANGED em

UpdateConfig(updates) ==
    /\ AppCall /\ RoomToPost
    /\ updateConfig(updates)
    /\ calls' = calls + 1
    /\ UNCHANGED em

Dispose ==
    /\ AppCall
    /\ dispose
    /\ calls' = calls + 1
    /\ UNCHANGED em

OnEvent(h) ==
    /\ AppCall
    /\ onEvent(h)
    /\ calls' = calls + 1
    /\ UNCHANGED em

Unsubscribe(h) ==
    /\ AppCall
    /\ unsubscribe(h)
    /\ calls' = calls + 1
    /\ UNCHANGED em

\* ------------------------------------------- main-thread message and timer
\* A variant that passes on no best move.
handleStockfishMessage_NoBestMove(m) ==
    CASE m.type = "ANALYSIS" ->
           <<[type |-> "evaluation", evaluation |-> m.evaluation,
              multiPV |-> m.multiPV]>>
      [] m.type = "ERROR" ->
           <<[type |-> "error", error |-> m.error]>>
      [] OTHER -> <<>>

\* handleStockfishMessage: the event a worker message is turned into, if any.
handleStockfishMessage(m) ==
    CASE m.type = "ANALYSIS" ->
           <<[type |-> "evaluation", evaluation |-> m.evaluation,
              multiPV |-> m.multiPV]>>
      [] m.type = "BEST_MOVE" ->
           <<[type |-> "bestMove", move |-> m.move, ponder |-> m.ponder]>>
      [] m.type = "ERROR" ->
           <<[type |-> "error", error |-> m.error]>>
      [] OTHER -> <<>>

\* One message of worker w is dispatched on the main thread: first to
\* worker.onmessage (handleStockfishMessage), then to readyHandler if it is
\* still a listener of w.  readyHandler removes itself from the worker the
\* Session refers to now, emits ready and resolves; on ERROR it rejects.
MgrRecv(w) ==
    /\ ~em.active
    /\ UNCHANGED offSession
    /\ wk[w].st = "alive"
    /\ outbox[w] # <<>>
    /\ LET m == Head(outbox[w])
           ev == handleStockfishMessage(m)
       IN /\ outbox' = [outbox EXCEPT ![w] = Tail(@)]
          /\ IF m.type = "READY"
             THEN IF ~readyHandler[w]
                  THEN UNCHANGED <<em, readyHandler, readyEmitted, uncaught,
                                   bestInFlight>>
                  ELSE IF stockfishWorker = NoWorker
                  THEN \* this.stockfishWorker!.removeEventListener on null
                       /\ uncaught' = uncaught \cup {"readyHandler"}
                       /\ UNCHANGED <<em, readyHandler, readyEmitted,
                                      bestInFlight>>
                  ELSE /\ readyHandler' =
                             [readyHandler EXCEPT ![w] =
                                 IF stockfishWorker = w THEN FALSE ELSE @]
                       /\ em' = StartEmit([type |-> "ready"], "resolve", w, "",
                                        <<>>, FALSE)
                       /\ readyEmitted' = [readyEmitted EXCEPT ![w] = @ + 1]
                       /\ UNCHANGED <<uncaught, bestInFlight>>
             ELSE /\ em' = IF ev # <<>>
                           THEN StartEmit(ev[1],
                                    IF m.type = "ERROR" /\ readyHandler[w]
                                    THEN "reject" ELSE "none",
                                    w,
                                    IF m.type = "ERROR" THEN m.error ELSE "",
                                    IF Has(m, "src") THEN m.src ELSE <<>>,
                                    Has(m, "late") /\ m.late)
                           ELSE em
                  /\ bestInFlight' =
                        IF ev # <<>> /\ ev[1].type = "bestMove"
                           /\ Has(m, "src")
                        THEN [bestInFlight EXCEPT ![w] = @ - 1]
                        ELSE bestInFlight
                  /\ UNCHANGED <<readyHandler, readyEmitted, uncaught>>
    /\ UNCHANGED <<stockfishWorker, eventHandlers, config, isInitialized,
                   promise, timer, wk, inbox, eng, calls, epoch, disposed,
                   lateCalls, preReadyEffect>>

\* A variant whose timer callback does not reject.
TimerFire_NoReject(w) ==
    /\ ~em.active
    /\ UNCHANGED offSession
    /\ timer[w] = "armed"
    /\ timer' = [timer EXCEPT ![w] = "fired"]
    /\ UNCHANGED <<stockfishWorker, eventHandlers, config, isInitialized,
                   promise, readyHandler, em, wkVars, obsVars, calls>>

\* setTimeout(() => reject(new Error('Stockfish initialization timeout')),
\* 10000): nothing clears the timer; reject is void on a settled promise.
TimerFire(w) ==
    /\ ~em.active
    /\ UNCHANGED offSession
    /\ timer[w] = "armed"
    /\ timer' = [timer EXCEPT ![w] = "fired"]
    /\ promise' = IF promise[w].state = "pending"
                  THEN [promise EXCEPT ![w] =
                           [state |-> "rejected", error |-> TimeoutError]]
                  ELSE promise
    /\ UNCHANGED <<stockfishWorker, eventHandlers, config, isInitialized,
                   readyHandler, em, wkVars, obsVars, calls>>

\* ------------------------------------------------------------ UCI engine
\* The engine is outside the repository.  It is modelled by the UCI protocol:
\* it owes uciok after uci, readyok after isready, and a bestmove line for
\* every search, also for one that stop or a new go cut short (stale).
UciCmd == [cmd |-> "uci"]
IsReadyCmd == [cmd |-> "isready"]
StopCmd == [cmd |-> "stop"]
SetOption(name, value) == [cmd |-> "setoption", name |-> name, value |-> value]
PonderOff == [cmd |-> "setoption", name |-> "Ponder", flag |-> FALSE]
PositionFen(fen) == [cmd |-> "position", fen |-> fen]
GoDepth(d) == [cmd |-> "go", depth |-> d]
GoMovetime(ms) == [cmd |-> "go", movetime |-> ms]

EngineTakes(e, c) ==
    LET e1 == [e EXCEPT !.log = Append(@, c)] IN
    CASE c.cmd = "uci" -> [e1 EXCEPT !.uciPending = TRUE]
      [] c.cmd = "isready" -> [e1 EXCEPT !.readyPending = TRUE]
      [] c.cmd = "stop" ->
           IF e.searching
           THEN [e1 EXCEPT !.searching = FALSE, !.stale = TRUE]
           ELSE e1
      [] c.cmd = "go" ->
           [e1 EXCEPT !.searching = TRUE, !.infoLeft = MaxInfo,
                      !.stale = e.stale \/ e.searching]
      [] OTHER -> e1

\* stockfish.postMessage(c) for every c of cmds, in order.
RECURSIVE EngineTakesAll(_, _)
EngineTakesAll(e, cmds) ==
    IF cmds = <<>> THEN e
    ELSE EngineTakesAll(EngineTakes(e, Head(cmds)), Tail(cmds))

\* ------------------------------------------------------- Stockfish worker
AnalysisCommands == {"ANALYZE_POSITION", "FIND_BEST_MOVE", "UPDATE_CONFIG"}

MockScores == {0 - 100, 99}      \* Math.floor(Math.random() * 200) - 100

OrDefault(v, d) == IF v = 0 THEN d ELSE v          \* v || d

MockAnalysis(score) ==
    [type |-> "ANALYSIS",
     evaluation |-> [score |-> score, depth |-> 15, nodes |-> 1000000,
                     time |-> 1000, nps |-> 1000000,
                     pv |-> <<M_e2e4, M_e7e5, M_g1f3>>, mate |-> Undefined],
     multiPV |-> 1, mock |-> TRUE]

MockBestMove ==
    [type |-> "BEST_MOVE", move |-> M_e2e4, ponder |-> Undefined,
     mock |-> TRUE]

\* The search the worker asks the engine for: stop, position, go.
Search(fen, go) == <<StopCmd, PositionFen(fen), go>>

\* A variant that sends the option whenever the update names a line count.
UpdateMultiPV_Unconditional(payload, analysisConfig) ==
    IF Has(payload, "multiPV") /\ payload.multiPV # 0
    THEN <<SetOption("MultiPV", payload.multiPV)>>
    ELSE <<>>

\* UPDATE_CONFIG, "Update MultiPV if changed": the option command sent for
\* an update, none unless it names a line count other than the current one.
UpdateMultiPV(payload, analysisConfig) ==
    IF /\ Has(payload, "multiPV")
       /\ payload.multiPV # 0
       /\ payload.multiPV # analysisConfig.multiPV
    THEN <<SetOption("MultiPV", payload.multiPV)>>
    ELSE <<>>

\* self.onmessage of the worker: the worker's state after message m and the
\* commands it posts to the engine.  score is what Math.random yields.
onmessage(k, m, score) ==
    LET ready == k.stockfish /\ k.isInitialized IN
    CASE m.type = "INIT" ->
           [k |-> [k EXCEPT
                     !.analysisConfig =
                         [multiPV |-> OrDefault(m.payload.multiPV, 3),
                          depth |-> OrDefault(m.payload.depth, 20),
                          timeLimit |-> OrDefault(m.payload.timeLimit, 3000)],
                     !.pc = "loading"],
            cmds |-> <<>>]
      [] m.type = "ANALYZE_POSITION" ->
           IF ~ready
           THEN [k |-> [k EXCEPT !.timers = Append(@, MockAnalysis(score))],
                 cmds |-> <<>>]
           ELSE LET standardFEN == convertBanChessFEN(m.fen) IN
                [k |-> [k EXCEPT !.currentPosition = standardFEN],
                 cmds |-> Search(standardFEN,
                                 GoDepth(k.analysisConfig.depth))]
      [] m.type = "FIND_BEST_MOVE" ->
           IF ~ready
           THEN [k |-> [k EXCEPT !.timers = Append(@, MockBestMove)],
                 cmds |-> <<>>]
           ELSE LET standardFEN == convertBanChessFEN(m.fen) IN
                [k |-> [k EXCEPT !.currentPosition = standardFEN],
                 cmds |-> Search(standardFEN,
                                 GoMovetime(OrDefault(m.timeLimit,
                                     k.analysisConfig.timeLimit)))]
      [] m.type = "UPDATE_CONFIG" ->
           IF ~ready
           THEN [k |-> k, cmds |-> <<>>]
           ELSE LET newConfig == Merge(k.analysisConfig, m.payload)
                    multiPV == UpdateMultiPV(m.payload, k.analysisConfig)
                    restart ==
                        IF k.currentPosition # EmptyPosition
                        THEN Search(k.currentPosition,
                                    GoDepth(newConfig.depth))
                        ELSE <<>>
                IN [k |-> [k EXCEPT !.analysisConfig = newConfig,
                                    !.configUpdates = @ + 1],
                    cmds |-> multiPV \o restart]
      [] m.type = "STOP" ->
           [k |-> k, cmds |-> IF ready THEN <<StopCmd>> ELSE <<>>]

WorkerRecv(w, score) ==
    /\ wk[w].st = "alive"
    /\ UNCHANGED offSession
    /\ inbox[w] # <<>>
    /\ LET m == Head(inbox[w])
           r == onmessage(wk[w], m, score)
       IN /\ inbox' = [inbox EXCEPT ![w] = Tail(@)]
          /\ wk' = [wk EXCEPT ![w] = r.k]
          /\ eng' = [eng EXCEPT ![w] = EngineTakesAll(@, r.cmds)]
          /\ preReadyEffect' =
                (preReadyEffect
                 \/ (/\ m.pre
                     /\ m.type \in AnalysisCommands
                     /\ (r.cmds # <<>> \/ r.k.timers # wk[w].timers)))
    /\ UNCHANGED <<mgrVars, em, outbox, uncaught, calls, epoch, disposed,
                   lateCalls, readyEmitted, bestInFlight>>

\* The setTimeout(..., 300) of a mock answer fires.
WorkerMockTimer(w) ==
    /\ wk[w].st = "alive"
    /\ UNCHANGED offSession
    /\ wk[w].timers # <<>>
    /\ Len(outbox[w]) < MaxQueue
    /\ outbox' = [outbox EXCEPT ![w] = Append(@, Head(wk[w].timers))]
    /\ wk' = [wk EXCEPT ![w].timers = Tail(@)]
    /\ UNCHANGED <<mgrVars, em, inbox, eng, obsVars, calls>>

\* initializeStockfish after await import('stockfish.js').  kind says how the
\* import went: "real" is the stockfish.js engine, "mock" the fallback object
\* of lines 104-127, whose addEventListener keeps no listener, "fail" an
\* engine factory that returns nothing.
\* The worker's own 10000 ms timeout only rejects the promise INIT awaits,
\* whose catch sets isInitialized = false while it is false: it changes no
\* state and posts nothing, so it has no action.
initializeStockfish(w, kind) ==
    /\ wk[w].st = "alive"
    /\ UNCHANGED offSession
    /\ wk[w].pc = "loading"
    /\ IF kind = "fail"
       THEN /\ Len(outbox[w]) < MaxQueue
            /\ wk' = [wk EXCEPT ![w].pc = "failed"]
            /\ outbox' = [outbox EXCEPT ![w] =
                             Append(@, [type |-> "ERROR",
                                        error |-> CreateError])]
            /\ UNCHANGED eng
       ELSE /\ wk' = [wk EXCEPT ![w].pc = "handshake",
                                ![w].stockfish = TRUE,
                                ![w].initHandler = (kind = "real")]
            /\ eng' = [eng EXCEPT ![w] =
                          EngineTakes([@ EXCEPT !.kind = kind], UciCmd)]
            /\ UNCHANGED outbox
    /\ UNCHANGED <<mgrVars, em, inbox, obsVars, calls>>

\* A variant that reports readiness as soon as uciok is seen.
initHandler_ReadyOnUciOk(k, line) ==
    IF Contains(line, W_uciok)
    THEN [k |-> [k EXCEPT !.uciOk = TRUE, !.initHandler = FALSE,
                          !.isInitialized = TRUE],
          cmds |-> <<SetOption("MultiPV", k.analysisConfig.multiPV),
                     SetOption("Hash", 128),
                     SetOption("Threads", 1),
                     PonderOff,
                     IsReadyCmd>>,
          post |-> <<[type |-> "READY"]>>]
    ELSE [k |-> k, cmds |-> <<>>, post |-> <<>>]

\* initHandler, the listener of the handshake: the worker's state after the
\* line, the commands it posts to the engine and the messages it posts to
\* the main thread.
initHandler(k, line) ==
    IF Contains(line, W_uciok)
    THEN [k |-> [k EXCEPT !.uciOk = TRUE],
          cmds |-> <<SetOption("MultiPV", k.analysisConfig.multiPV),
                     SetOption("Hash", 128),
                     SetOption("Threads", 1),
                     PonderOff,
                     IsReadyCmd>>,
          post |-> <<>>]
    ELSE IF Contains(line, W_readyok) /\ k.uciOk
    THEN [k |-> [k EXCEPT !.initHandler = FALSE, !.isInitialized = TRUE],
          cmds |-> <<>>,
          post |-> <<[type |-> "READY"]>>]
    ELSE [k |-> k, cmds |-> <<>>, post |-> <<>>]

\* A message of the parser with the tokens of the line it was parsed from,
\* and whether the line is late: output of a search that a later go has
\* superseded (src and late are carried for observation only: no code
\* reads them).
Tagged(msgs, parts, late) ==
    [i \in 1..Len(msgs) |-> Merge(msgs[i], [src |-> parts, late |-> late])]

\* A best-move announcement with a move token.
IsBestMoveLine(parts) ==
    Len(parts) >= 2 /\ parts[1] = W_bestmove /\ parts[2] # <<>>

\* The engine prints one line: stockfish.onmessage runs handleUCIMessage,
\* then initHandler runs if it is still a listener.  e1 is the engine after
\* printing.
EngineLine(w, line, e1) ==
    /\ wk[w].st = "alive"
    /\ UNCHANGED offSession
    /\ eng[w].kind = "real"
    /\ Len(outbox[w]) < MaxQueue
    /\ LET r == IF wk[w].initHandler THEN initHandler(wk[w], line)
                ELSE [k |-> wk[w], cmds |-> <<>>, post |-> <<>>]
       IN /\ wk' = [wk EXCEPT ![w] = r.k]
          /\ eng' = [eng EXCEPT ![w] = EngineTakesAll(e1, r.cmds)]
          /\ outbox' = [outbox EXCEPT ![w] =
                           @ \o Tagged(handleUCIMessage(line),
                                       Split(Trim(line)),
                                       eng[w].stale /\ eng[w].searching)
                             \o r.post]
          /\ bestInFlight' = IF IsBestMoveLine(Split(Trim(line)))
                             THEN [bestInFlight EXCEPT ![w] = @ + 1]
                             ELSE bestInFlight
    /\ UNCHANGED <<mgrVars, em, inbox, calls, uncaught, epoch, disposed,
                   lateCalls, readyEmitted, preReadyEffect>>

EngineUciOk(w) ==
    /\ eng[w].uciPending
    /\ EngineLine(w, W_uciok, [eng[w] EXCEPT !.uciPending = FALSE])

EngineReadyOk(w) ==
    /\ eng[w].readyPending
    /\ EngineLine(w, W_readyok,
                  [eng[w] EXCEPT !.readyPending = FALSE,
                                 !.readyokSent = TRUE])

EngineInfo(w) ==
    /\ eng[w].searching \/ eng[w].stale
    /\ eng[w].infoLeft > 0
    /\ EngineLine(w, InfoLine, [eng[w] EXCEPT !.infoLeft = @ - 1])

\* The bestmove line of the oldest search that has not printed one.
EngineBestMove(w, line) ==
    /\ line \in BestLines
    /\ eng[w].searching \/ eng[w].stale
    /\ EngineLine(w, line,
                  IF eng[w].stale THEN [eng[w] EXCEPT !.stale = FALSE]
                  ELSE [eng[w] EXCEPT !.searching = FALSE])

\* ---------------------------------------------------------- specification
Next ==
    \/ Initialize
    \/ \E fen \in Fens : AnalyzePosition(fen)
    \/ \E fen \in Fens : FindBestMove(fen)
    \/ Stop
    \/ \E u \in Updates : UpdateConfig(u)
    \/ Dispose
    \/ \E h \in Handlers : OnEvent(h)
    \/ \E h \in Handlers : Unsubscribe(h)
    \/ \E act \in HandlerActs : HandlerStep(act)
    \/ EmitDone
    \/ \E w \in Workers : MgrRecv(w)
    \/ \E w \in Workers : TimerFire(w)
    \/ \E w \in Workers, score \in MockScores : WorkerRecv(w, score)
    \/ \E w \in Workers : WorkerMockTimer(w)
    \/ \E w \in Workers, kind \in {"real", "mock", "fail"} :
          initializeStockfish(w, kind)
    \/ \E w \in Workers : EngineUciOk(w)
    \/ \E w \in Workers : EngineReadyOk(w)
    \/ \E w \in Workers : EngineInfo(w)
    \/ \E w \in Workers, line \in BestLines : EngineBestMove(w, line)

Spec == Init /\ [][Next]_vars

\* ---------------------------------------------- parser and adapter alone
\* One line of an engine's output stream waits for stockfish.onmessage, or
\* one position waits for the adapter; no Session exists.
ParserInit ==
    /\ SessionInit
    /\ SearchInit
    /\ PanelInit
    /\ \/ /\ said \in Said
          /\ engineLine = Printed(said)
          /\ handled = FALSE
          /\ posted = <<>>
          /\ lineNo = 1
          /\ PositionIdle
       \/ /\ banFields \in FenFields
          /\ banFen = Join(banFields)
          /\ standardFen = Undefined
          /\ EngineLineIdle

\* stockfish.onmessage: handleUCIMessage(message), and what it posts.
EngineSays ==
    /\ lineNo >= 1
    /\ ~handled
    /\ handled' = TRUE
    /\ posted' = handleUCIMessage(engineLine)
    /\ UNCHANGED <<said, engineLine, lineNo, banFields, banFen, standardFen>>
    /\ UNCHANGED offParser

\* The engine prints the next line of the stream.
EngineGoesOn(d) ==
    /\ handled
    /\ lineNo < MaxLines
    /\ said' = d
    /\ engineLine' = Printed(d)
    /\ handled' = FALSE
    /\ posted' = <<>>
    /\ lineNo' = lineNo + 1
    /\ UNCHANGED <<banFields, banFen, standardFen>>
    /\ UNCHANGED offParser

\* convertBanChessFEN(payload.fen)
AdaptPosition ==
    /\ banFields # <<>>
    /\ standardFen = Undefined
    /\ standardFen' = Some(convertBanChessFEN(banFen))
    /\ UNCHANGED <<said, engineLine, handled, posted, lineNo, banFields,
                   banFen>>
    /\ UNCHANGED offParser

ParserNext ==
    \/ EngineSays
    \/ \E d \in FollowUps : EngineGoesOn(d)
    \/ AdaptPosition

ParserSpec == ParserInit /\ [][ParserNext]_<<pureVars>>

\* ---------------------------------- iterative-search worker: steps
\* Math.min(500, payload.timeLimit / maxDepth), as an exact fraction.
MoveTime_CapOnly(timeLimit, maxDepth) == [num |-> SearchCap, den |-> 1]

MoveTime(timeLimit, maxDepth) ==
    IF SearchCap * maxDepth <= timeLimit
    THEN [num |-> SearchCap, den |-> 1]
    ELSE [num |-> timeLimit, den |-> maxDepth]

\* if (searchResult.pv.length > 0) bestAction = searchResult.pv[0]
NextBestAction_KeepsFirst(bestAction, pv) ==
    IF pv # <<>> /\ bestAction = Undefined THEN Some(pv[1]) ELSE bestAction

NextBestAction(bestAction, pv) ==
    IF pv # <<>> THEN Some(pv[1]) ELSE bestAction

\* finally { isSearching = false }
Finally_Missing(searching) == searching

Finally(searching) == FALSE

\* The main thread posts a message to the worker.  A STOP posted while the
\* FIND_BEST_MOVE handler runs is a cancellation request for that search.
SwPost(m) ==
    /\ posts < MaxPosts
    /\ posts' = posts + 1
    /\ swInbox' = Append(swInbox, m)
    /\ find' = IF find.active /\ m.type = "STOP"
               THEN [find EXCEPT !.stopRequested = TRUE]
               ELSE find
    /\ UNCHANGED <<engine, engineV2, currentAnalysis, isSearching,
                   searchStartTime, now, swOutbox>>
    /\ UNCHANGED offSearch

\* The worker is between two tasks and the next message is of this type.
\* The handler's messages start a new list.
SwNext(type) ==
    /\ ~find.active
    /\ swInbox # <<>>
    /\ Head(swInbox).type = type
    /\ swInbox' = Tail(swInbox)
    /\ UNCHANGED <<posts, offSearch>>

NotInitialized == [type |-> "ERROR", error |-> "Engine not initialized"]

SwInit ==
    /\ SwNext("INIT")
    /\ engine' = TRUE
    /\ engineV2' = TRUE
    /\ swOutbox' = Append(<<>>, [type |-> "READY"])
    /\ UNCHANGED <<currentAnalysis, isSearching, searchStartTime, now, find>>

\* FIND_BEST_MOVE up to the depth loop.
SwFindBestMove ==
    /\ SwNext("FIND_BEST_MOVE")
    /\ LET payload == Head(swInbox).payload IN
       IF ~engine \/ ~engineV2
       THEN /\ swOutbox' = Append(<<>>, NotInitialized)
            /\ UNCHANGED <<isSearching, searchStartTime, find>>
       ELSE /\ searchStartTime' = now
            /\ IF payload.fen = "invalid"
               THEN \* new BanChess(payload.fen) throws: catch, finally
                    /\ swOutbox' = Append(<<>>,
                                          [type |-> "ERROR",
                                           error |-> "Invalid FEN"])
                    /\ isSearching' = Finally(TRUE)
                    /\ UNCHANGED find
               ELSE /\ isSearching' = TRUE
                    /\ swOutbox' = Append(<<>>,
                                          [type |-> "SEARCH_UPDATE",
                                           depth |-> 0, nodes |-> 0,
                                           evaluation |-> 0, pv |-> <<>>,
                                           time |-> 0])
                    /\ find' = [IdleFind EXCEPT
                                  !.active = TRUE,
                                  !.depth = 1,
                                  !.maxDepth =
                                      IF Has(payload, "depth")
                                         /\ payload.depth # 0
                                      THEN payload.depth ELSE DefaultDepth,
                                  !.timeLimit = payload.timeLimit]
    /\ UNCHANGED <<engine, engineV2, currentAnalysis, now>>

\* depth <= maxDepth && isSearching, and the break of the time check.
LoopGoesOn ==
    /\ find.depth <= find.maxDepth
    /\ isSearching
    /\ ~find.broke

\* One iteration of the depth loop: engineV2.search, the progress update,
\* the time check.
SwDepth(outcome) ==
    /\ find.active
    /\ LoopGoesOn
    /\ now' = now + outcome.took
    /\ LET depth == find.depth
           f1 == [find EXCEPT
                    !.searches =
                        Append(@, [depth |-> depth,
                                   movetime |-> MoveTime(find.timeLimit,
                                                         find.maxDepth),
                                   pv |-> outcome.pv,
                                   elapsed |-> now' - searchStartTime]),
                    !.lateDepths = IF find.stopRequested THEN @ + 1 ELSE @]
           nodes == depth * 100 + Len(outcome.pv)
       IN IF outcome.threw
          THEN /\ swOutbox' = Append(swOutbox, [type |-> "ERROR",
                                                error |-> "Unknown error"])
               /\ isSearching' = Finally(isSearching)
               /\ find' = [f1 EXCEPT !.active = FALSE]
          ELSE /\ swOutbox' =
                     IF outcome.pv # <<>>
                     THEN Append(swOutbox,
                                 [type |-> "SEARCH_UPDATE", depth |-> depth,
                                  nodes |-> nodes, evaluation |-> 0,
                                  pv |-> Slice(outcome.pv, 5),
                                  time |-> now' - searchStartTime])
                     ELSE swOutbox
               /\ find' = [f1 EXCEPT
                             !.bestAction =
                                 NextBestAction(@, outcome.pv),
                             !.bestScore = IF outcome.pv # <<>> THEN 0 ELSE @,
                             !.totalNodes = IF outcome.pv # <<>>
                                            THEN nodes ELSE @,
                             !.broke = now' - searchStartTime > find.timeLimit,
                             !.depth = depth + 1]
               /\ UNCHANGED isSearching
    /\ UNCHANGED <<engine, engineV2, currentAnalysis, searchStartTime,
                   swInbox, posts, offSearch>>

\* After the loop: the final result, then finally { isSearching = false }.
SwBestMove ==
    /\ find.active
    /\ ~LoopGoesOn
    /\ swOutbox' = Append(swOutbox,
                          [type |-> "BEST_MOVE", move |-> find.bestAction,
                           evaluation |-> find.bestScore,
                           depth |-> find.maxDepth,
                           nodes |-> find.totalNodes,
                           pv |-> find.bestAction,
                           time |-> now - searchStartTime])
    /\ isSearching' = Finally(TRUE)
    /\ find' = [find EXCEPT !.active = FALSE]
    /\ UNCHANGED <<engine, engineV2, currentAnalysis, searchStartTime, now,
                   swInbox, posts, offSearch>>

SwAnalyzePosition ==
    /\ SwNext("ANALYZE_POSITION")
    /\ IF ~engine \/ ~engineV2
       THEN /\ swOutbox' = Append(<<>>, NotInitialized)
            /\ UNCHANGED currentAnalysis
       ELSE /\ currentAnalysis' = Some(Head(swInbox).payload.fen)
            /\ swOutbox' = Append(<<>>, [type |-> "ANALYSIS"])
    /\ UNCHANGED <<engine, engineV2, isSearching, searchStartTime, now, find>>

SwGetStats ==
    /\ SwNext("GET_TT_STATS")
    /\ swOutbox' = Append(<<>>, IF ~engine THEN NotInitialized
                                    ELSE [type |-> "TT_STATS"])
    /\ UNCHANGED <<engine, engineV2, currentAnalysis, isSearching,
                   searchStartTime, now, find>>

SwStop ==
    /\ SwNext("STOP")
    /\ isSearching' = FALSE
    /\ swOutbox' = <<>>
    /\ UNCHANGED <<engine, engineV2, currentAnalysis, searchStartTime, now,
                   find>>

SearchNext ==
    \/ \E m \in SearchMessages : SwPost(m)
    \/ SwInit
    \/ SwFindBestMove
    \/ \E outcome \in SearchOutcomes : SwDepth(outcome)
    \/ SwBestMove
    \/ SwAnalyzePosition
    \/ SwGetStats
    \/ SwStop

SearchSpec == Init /\ [][SearchNext]_<<searchVars>>

\* ------------------------------------------------- AnalysisPanel: steps
\* The subscriber of the panel is invoked with an evaluation event.
PanelEvaluation(event) ==
    /\ engineLines' = NextLines(engineLines, event, selectedLineId)
    /\ panelPrev' = engineLines
    /\ panelEvent' = Some(event)
    /\ UNCHANGED <<selectedLineId, offPanel>>

\* handleLineSelect(line) for a line of the list.
PanelSelect(i) ==
    /\ i \in 1..Len(engineLines)
    /\ selectedLineId' = engineLines[i].id
    /\ UNCHANGED <<engineLines, panelPrev, panelEvent, offPanel>>

PanelNext ==
    \/ \E event \in PanelEvents : PanelEvaluation(event)
    \/ \E i \in PanelRanks : PanelSelect(i)

PanelSpec == Init /\ [][PanelNext]_<<panelVars>>

\* ------------------------------------------------------------------ claims
Count(q, P(_)) == Cardinality({i \in 1..Len(q) : P(q[i])})

IsParsedBestMove(m) == m.type = "BEST_MOVE" /\ Has(m, "src")

C2_DroppedBeforeReady == ~preReadyEffect

C4_TimeoutRejects ==
    \A w \in Created :
        (~eng[w].readyokSent /\ wk[w].pc # "failed") =>
            /\ timer[w] = "armed" => promise[w].state = "pending"
            /\ timer[w] = "fired" =>
                  promise[w] = [state |-> "rejected", error |-> TimeoutError]

C4_Witness ==
    \E w \in Created :
        /\ ~eng[w].readyokSent
        /\ wk[w].pc = "handshake"
        /\ timer[w] = "fired"
        /\ promise[w] = [state |-> "rejected", error |-> TimeoutError]

\* C5: an attempt whose timer rejected initialize() while no READY had
\* arrived emits no ready event, then or later.
C5_NoReadyAfterTimeout ==
    \A w \in Created :
        promise[w] = [state |-> "rejected", error |-> TimeoutError]
            => readyEmitted[w] = 0

\* C6: the first command an engine receives is uci; the option commands
\* MultiPV, Hash, Threads, Ponder and then isready follow it, in this order,
\* and only once the worker has seen uciok; a ready event is emitted, and
\* initialize() resolved, only after the engine sent readyok to a worker that
\* had seen uciok; an attempt emits at most one ready event.
C6_Handshake ==
    \A w \in Workers :
        LET log == eng[w].log IN
        /\ log # <<>> => log[1] = UciCmd
        /\ Len(log) >= 2 =>
              /\ wk[w].uciOk
              /\ Len(log) >= 6
              /\ log[2].cmd = "setoption" /\ log[2].name = "MultiPV"
              /\ log[3] = SetOption("Hash", 128)
              /\ log[4] = SetOption("Threads", 1)
              /\ log[5] = PonderOff
              /\ log[6] = IsReadyCmd
        /\ \A i \in 7..Len(log) : eng[w].readyokSent
        /\ readyEmitted[w] >= 1 => (eng[w].readyokSent /\ wk[w].uciOk)
        /\ promise[w].state = "resolved" => readyEmitted[w] >= 1
        /\ readyEmitted[w] <= 1
        /\ isInitialized => \E v \in Workers : promise[v].state = "resolved"

C6_Witness ==
    \E w \in Workers :
        /\ promise[w].state = "resolved"
        /\ readyEmitted[w] = 1
        /\ Len(eng[w].log) > 6
        /\ isInitialized

\* C7: a handler that calls analyzePosition(fen) while it is invoked with the
\* ready event gets the ANALYZE_POSITION command posted to the worker.
C7_CommandInReadyHandler ==
    [][(em.active /\ em.event.type = "ready" /\ HandlerStep("analyze")) =>
          \E w \in Workers :
              /\ Len(inbox'[w]) = Len(inbox[w]) + 1
              /\ inbox'[w][Len(inbox'[w])].type = "ANALYZE_POSITION"]_vars

C9_SnapshotDelivery ==
    (em.active /\ em.k = em.len) => em.delivered = em.snapshot

\* C10: at most one worker created by the Session is alive at any time.
C10_OneWorker == Cardinality(Alive) <= 1

\* C11: once dispose() has been called the Session has no worker and is not
\* initialized, whatever is called on it afterwards, initialize() included.
C11_DisposedTerminal ==
    epoch > 0 => (stockfishWorker = NoWorker /\ ~isInitialized)

IsMultiPV5(c) == c = SetOption("MultiPV", 5)

Takes(w, type) ==
    /\ wk[w].st = "alive"
    /\ wk'[w].st = "alive"
    /\ inbox[w] # <<>>
    /\ inbox'[w] = Tail(inbox[w])
    /\ Head(inbox[w]).type = type

\* The Session posts a message of this type to worker w.
Posts(w, type) ==
    /\ inbox'[w] # <<>>
    /\ inbox'[w] = Append(inbox[w], inbox'[w][Len(inbox'[w])])
    /\ inbox'[w][Len(inbox'[w])].type = type

\* The commands the engine of worker w receives in this step.
Sent(w) == SubSeq(eng'[w].log, Len(eng[w].log) + 1, Len(eng'[w].log))

\* The worker has an engine and has completed its handshake.
WorkerReady(w) == wk[w].stockfish /\ wk[w].isInitialized

\* No update of the configuration is on its way to worker w.
NoUpdateInFlight(w) ==
    \A j \in 1..Len(inbox[w]) : inbox[w][j].type # "UPDATE_CONFIG"

\* What a worker that has completed its handshake sends its engine for
\* ANALYZE_POSITION and FIND_BEST_MOVE: exactly stop, position fen <the first
\* six fields>, and go depth <the worker's configured depth> or go movetime
\* <the time limit of the message>.
ReadyWorkerSearchCommands ==
    [][\A w \in Workers :
          /\ (Takes(w, "ANALYZE_POSITION") /\ WorkerReady(w)
              /\ Head(inbox[w]).fen = Fen7) =>
                 Sent(w) = <<StopCmd, PositionFen(Fen6),
                             GoDepth(wk[w].analysisConfig.depth)>>
          /\ (Takes(w, "FIND_BEST_MOVE") /\ WorkerReady(w)
              /\ Head(inbox[w]).fen = Fen7) =>
                 Sent(w) = <<StopCmd, PositionFen(Fen6),
                             GoMovetime(Head(inbox[w]).timeLimit)>>]_vars

\* C22: ANALYZE_POSITION and FIND_BEST_MOVE are posted by an initialized
\* Session to its worker only, FIND_BEST_MOVE with the Session's time limit
\* of that moment; when the worker takes ANALYZE_POSITION the engine
\* receives exactly stop, position fen <the first six fields>, go depth
\* <the Session's configured depth, no update being on its way>, and when
\* it takes FIND_BEST_MOVE exactly stop, position fen <the first six
\* fields>, go movetime <the time limit of the message>; and in every
\* engine's log a go command follows a position command that follows a stop
\* command.
C22_SearchCommands ==
    [][\A w \in Workers :
          /\ (Posts(w, "ANALYZE_POSITION") \/ Posts(w, "FIND_BEST_MOVE")) =>
                 (isInitialized /\ stockfishWorker = w)
          /\ Posts(w, "FIND_BEST_MOVE") =>
                 inbox'[w][Len(inbox'[w])].timeLimit = config.timeLimit
          /\ (Takes(w, "ANALYZE_POSITION")
              /\ Head(inbox[w]).fen = Fen7) =>
                 /\ Len(Sent(w)) = 3
                 /\ SubSeq(Sent(w), 1, 2) = <<StopCmd, PositionFen(Fen6)>>
                 /\ Sent(w)[3].cmd = "go"
                 /\ Has(Sent(w)[3], "depth")
                 /\ NoUpdateInFlight(w) => Sent(w)[3].depth = config.depth
          /\ (Takes(w, "FIND_BEST_MOVE")
              /\ Head(inbox[w]).fen = Fen7) =>
                 Sent(w) = <<StopCmd, PositionFen(Fen6),
                             GoMovetime(Head(inbox[w]).timeLimit)>>
          /\ \A i \in 1..Len(eng'[w].log) :
                 eng'[w].log[i].cmd = "go" =>
                     /\ i >= 3
                     /\ eng'[w].log[i - 1].cmd = "position"
                     /\ eng'[w].log[i - 2] = StopCmd]_vars

IsMultiPVOption(c) == c.cmd = "setoption" /\ c.name = "MultiPV"

IsPositionOrGo(c) == c.cmd \in {"position", "go"}

\* The depth in force at worker w once it has merged payload.
NewDepth(w, payload) ==
    IF Has(payload, "depth") THEN payload.depth
    ELSE wk[w].analysisConfig.depth

\* What the engine of worker w must receive when w takes the update at the
\* head of its queue: the MultiPV option if and only if the update names a
\* line count other than the worker's, then stop, position fen <loaded
\* position>, go depth <new depth> if a position is loaded, and neither a
\* position nor a go command if none is.
UpdateCommands(w) ==
    LET payload == Head(inbox[w]).payload
        changed == /\ Has(payload, "multiPV")
                   /\ payload.multiPV # wk[w].analysisConfig.multiPV
        loaded == wk[w].currentPosition
    IN /\ Count(Sent(w), IsMultiPVOption) = (IF changed THEN 1 ELSE 0)
       /\ changed => Sent(w)[1] = SetOption("MultiPV", payload.multiPV)
       /\ loaded # EmptyPosition =>
              /\ Len(Sent(w)) >= 3
              /\ SubSeq(Sent(w), Len(Sent(w)) - 2, Len(Sent(w))) =
                     <<StopCmd, PositionFen(loaded),
                       GoDepth(NewDepth(w, payload))>>
              /\ Count(Sent(w), IsPositionOrGo) = 2
       /\ loaded = EmptyPosition => Count(Sent(w), IsPositionOrGo) = 0

\* A worker that has completed its handshake merges the update and sends
\* its engine the commands above.
ReadyWorkerUpdate ==
    [][\A w \in Workers :
          (Takes(w, "UPDATE_CONFIG") /\ WorkerReady(w)) =>
              /\ wk'[w].analysisConfig =
                     Merge(wk[w].analysisConfig, Head(inbox[w]).payload)
              /\ UpdateCommands(w)]_vars

\* C23: updateConfig merges the update into the Session's configuration and
\* posts it to the worker, if there is one; the worker that takes it merges
\* it into its own configuration and sends its engine the MultiPV option if
\* and only if the line count changed, then stop, position fen <loaded
\* position>, go depth <new depth> whenever a position is loaded, and no
\* position or go command when none is.
C23_UpdateConfig ==
    [][\A w \in Workers :
          /\ Posts(w, "UPDATE_CONFIG") =>
                 /\ stockfishWorker = w
                 /\ config' =
                       Merge(config, inbox'[w][Len(inbox'[w])].payload)
          /\ Takes(w, "UPDATE_CONFIG") =>
                 /\ wk'[w].analysisConfig =
                        Merge(wk[w].analysisConfig, Head(inbox[w]).payload)
                 /\ UpdateCommands(w)]_vars

\* The main thread takes the message at the head of what worker w posted.
Receives(w) ==
    /\ wk[w].st = "alive"
    /\ wk'[w].st = "alive"
    /\ outbox[w] # <<>>
    /\ outbox'[w] = Tail(outbox[w])

\* C24: the Session filters nothing: every ANALYSIS message and every
\* BEST_MOVE message it receives from a worker, late or not, starts the
\* emission of an evaluation or bestMove event with the message's content to
\* all subscribers; so a line the engine printed for a search that a later
\* go had already superseded reaches the subscribers.
C24_LateOutputDelivered ==
    [][\A w \in Workers :
          (Receives(w)
           /\ Head(outbox[w]).type \in {"ANALYSIS", "BEST_MOVE"}) =>
              /\ em'.active
              /\ em'.w = w
              /\ em'.len = Len(eventHandlers)
              /\ em'.late = (/\ Has(Head(outbox[w]), "late")
                             /\ Head(outbox[w]).late)
              /\ Head(outbox[w]).type = "ANALYSIS" =>
                     /\ em'.event.type = "evaluation"
                     /\ em'.event.evaluation = Head(outbox[w]).evaluation
              /\ Head(outbox[w]).type = "BEST_MOVE" =>
                     /\ em'.event.type = "bestMove"
                     /\ em'.event.move = Head(outbox[w]).move]_vars

\* A subscriber has been invoked with the bestMove event of a bestmove line
\* that the engine printed for a search after the stop, position and go
\* commands of the next search had been issued.
C24_Witness ==
    /\ em.active
    /\ em.event.type = "bestMove"
    /\ em.late
    /\ Len(em.delivered) >= 1
    /\ isInitialized
    /\ stockfishWorker = em.w
    /\ LET log == eng[em.w].log
       IN \E i \in 1..Len(log), j \in 1..Len(log) :
              /\ i + 3 <= j
              /\ log[i].cmd = "go"
              /\ log[j].cmd = "go"
              /\ log[j - 1].cmd = "position"
              /\ log[j - 2] = StopCmd

\* The same for an evaluation event of a late info line.
LateEvaluation ==
    /\ em.active
    /\ em.event.type = "evaluation"
    /\ em.late
    /\ Len(em.delivered) >= 1

\* stop() changes nothing but the worker's queue, whatever the state of the
\* Session, and the worker that takes STOP changes nothing of its own state
\* and sends its engine one stop command if it has completed its handshake,
\* nothing otherwise.
StopFrame ==
    [][/\ Stop =>
             /\ UNCHANGED <<mgrVars, em, wk, outbox, eng, uncaught>>
             /\ \A w \in Workers :
                    inbox'[w] # inbox[w] =>
                        (Posts(w, "STOP") /\ stockfishWorker = w)
       /\ \A w \in Workers :
             Takes(w, "STOP") =>
                 /\ UNCHANGED <<mgrVars, em, wk, outbox, uncaught>>
                 /\ Sent(w) = (IF WorkerReady(w) THEN <<StopCmd>>
                               ELSE <<>>)]_vars

\* C25: stop() raises nothing, starts no emission and leaves the
\* configuration, the subscribers and the worker's loaded position as they
\* are, in every state of the Session; so does the worker that takes STOP;
\* and the engine receives exactly one stop command for a stop() that was
\* called on a ready Session.
C25_Stop ==
    [][/\ Stop => UNCHANGED <<mgrVars, em, wk, outbox, eng, uncaught>>
       /\ \A w \in Workers :
             Takes(w, "STOP") =>
                 /\ UNCHANGED <<mgrVars, em, wk, outbox, uncaught>>
                 /\ ~Head(inbox[w]).pre => Sent(w) = <<StopCmd>>]_vars

\* C28: whenever isInitialized is true the Session refers to a worker.
C28_InitializedHasWorker == isInitialized => stockfishWorker # NoWorker

\* C29: once the Session is ready and no update is on its way to the worker,
\* the worker's analysis configuration equals the Session's configuration.
C29_ConfigInSync ==
    (/\ isInitialized
     /\ stockfishWorker # NoWorker
     /\ WorkerReady(stockfishWorker)
     /\ NoUpdateInFlight(stockfishWorker)) =>
        wk[stockfishWorker].analysisConfig = config

\* ----------------------------------------------------- claims: the parser
SaidHas(name) == said.shape = "fields" /\ Includes(said.order, name)

\* The line said is a progress-info line: it starts with info and has both
\* a depth and a score.
SaidInfo ==
    /\ said.shape = "fields"
    /\ said.head = W_info
    /\ SaidHas("depth")
    /\ SaidHas("score")

\* The integer the engine printed for a field, if it printed one.
SaidInt(name) == said.val[name].int

\* The event the Session emits for the message the parser posted.
Emitted == handleStockfishMessage(posted[1])[1]

\* C13: for a handled info line with depth and score whose score is cp
\* followed by the numeral of an integer X, one ANALYSIS message is posted
\* and the evaluation event made of it has score X and no mate distance.
C13_CentipawnScore ==
    (/\ handled /\ SaidInfo
     /\ said.val["score"].kind = W_cp
     /\ SaidInt("score") # Undefined) =>
        /\ Len(posted) = 1
        /\ posted[1].type = "ANALYSIS"
        /\ Emitted.type = "evaluation"
        /\ Emitted.evaluation.score = SaidInt("score")[1]
        /\ Emitted.evaluation.mate = Undefined

C13_Witness ==
    /\ handled /\ SaidInfo
    /\ said.val["score"].kind = W_cp
    /\ SaidInt("score") = Some(0 - 130)
    /\ said.order[1] = "multipv"
    /\ Emitted.evaluation.score = 0 - 130
    /\ Emitted.evaluation.mate = Undefined

\* C14: for a handled info line with score mate N, the evaluation keeps the
\* mate distance N and has score 20000 - 2N when N > 0 and -20000 - 2N when
\* N < 0; over the mate distances of the lines, every score of a positive
\* mate is above every score of a negative mate, a shorter positive mate has
\* the higher score and a shorter negative mate the lower one.
C14_MateScore ==
    /\ (/\ handled /\ SaidInfo
        /\ said.val["score"].kind = W_mate
        /\ SaidInt("score") # Undefined) =>
           LET N == SaidInt("score")[1] IN
           /\ Len(posted) = 1
           /\ Emitted.evaluation.mate = Some(N)
           /\ N > 0 => Emitted.evaluation.score = 20000 - 2 * N
           /\ N < 0 => Emitted.evaluation.score = (0 - 20000) - 2 * N
    /\ \A p, q \in 1..MaxMate :
           /\ MateScore(p) > MateScore(0 - q)
           /\ p < q => /\ MateScore(p) > MateScore(q)
                       /\ MateScore(0 - p) < MateScore(0 - q)

C14_Witness ==
    /\ handled /\ SaidInfo
    /\ said.val["score"].kind = W_mate
    /\ SaidInt("score") = Some(0 - 2)
    /\ Emitted.evaluation.mate = Some(0 - 2)
    /\ Emitted.evaluation.score = 0 - 19996

\* C15: the principal variation of the evaluation of a handled info line is
\* the run of moves printed after pv up to the first token that is no move
\* or an alternate field, cut to its first 10; it is empty when the line has
\* no pv; it never has more than 10 entries and every entry is a move.
C15_PrincipalVariation ==
    (handled /\ SaidInfo) =>
        LET pv == Emitted.evaluation.pv IN
        /\ Len(posted) = 1
        /\ Len(pv) <= 10
        /\ \A i \in 1..Len(pv) : IsUciMove(pv[i])
        /\ said.pv = Undefined => pv = <<>>
        /\ said.pv # Undefined =>
              pv = Moves(IF said.pv[1].moves > 10 THEN 10
                         ELSE said.pv[1].moves)

C15_Witness ==
    /\ handled /\ SaidInfo
    /\ said.pv # Undefined
    /\ said.pv[1].moves > 10
    /\ said.pv[1].ender = Some(W_currline)
    /\ Len(said.order) > said.pvAt
    /\ Emitted.evaluation.pv = Moves(10)

\* C16: a handled line has at most one message posted, which becomes at most
\* one event; a line that starts with info and lacks the depth token or the
\* score token, and a line that starts with neither info nor bestmove, has
\* none.
C16_AtMostOneEvent ==
    handled =>
        LET toks == LineTokens(said) IN
        /\ Len(posted) <= 1
        /\ \A i \in 1..Len(posted) : Len(handleStockfishMessage(posted[i])) <= 1
        /\ (/\ toks # <<>> /\ toks[1] = W_info
            /\ (~Includes(toks, W_depth) \/ ~Includes(toks, W_score))) =>
               posted = <<>>
        /\ (toks = <<>> \/ toks[1] \notin {W_info, W_bestmove}) =>
               posted = <<>>

C16_Witness ==
    /\ handled
    /\ said.shape = "fields" /\ said.head = W_info
    /\ SaidHas("depth") /\ ~SaidHas("score")
    /\ Len(said.order) = 5
    /\ posted = <<>>

\* What the message carries for a numeric field.
Carried(m, name) ==
    CASE name = "depth" -> m.evaluation.depth
      [] name = "nodes" -> m.evaluation.nodes
      [] name = "time" -> m.evaluation.time
      [] name = "nps" -> m.evaluation.nps
      [] name = "multipv" -> m.multiPV

NumericDefault(name) == IF name = "multipv" THEN 1 ELSE 0

\* C17: in the evaluation of a handled info line, depth, nodes, time, nps
\* and multipv are the integers printed after their keywords, wherever the
\* keywords stand; multipv is 1 and nodes, time and nps are 0 when their
\* keyword is absent; and the scenario line yields score 25, depth 15,
\* nodes 1000000, time 1000, nps 1000000, pv e2e4 e7e5 g1f3 and rank 1.
C17_NumericFields ==
    /\ (handled /\ SaidInfo) =>
          /\ Len(posted) = 1
          /\ \A name \in {"depth", "nodes", "time", "nps", "multipv"} :
                /\ (SaidHas(name) /\ SaidInt(name) # Undefined) =>
                      Carried(Emitted, name) = SaidInt(name)[1]
                /\ ~SaidHas(name) =>
                      Carried(Emitted, name) = NumericDefault(name)
    /\ (handled /\ said = ScenarioLine) =>
          Emitted = [type |-> "evaluation",
                     evaluation |->
                         [score |-> 25, depth |-> 15, nodes |-> 1000000,
                          time |-> 1000, nps |-> 1000000,
                          pv |-> <<M_e2e4, M_e7e5, M_g1f3>>,
                          mate |-> Undefined],
                     multiPV |-> 1]

C17_Witness ==
    /\ handled /\ SaidInfo
    /\ said.order = <<"nps", "depth", "score", "time">>
    /\ said.pvAt = 1
    /\ Emitted.evaluation.nps = 7428
    /\ Emitted.evaluation.depth = 15
    /\ Emitted.evaluation.time = 7
    /\ Emitted.evaluation.nodes = 0
    /\ Emitted.multiPV = 1

\* C18: a handled info line whose depth, or whose centipawn score, is a
\* token that is no number has no message posted, and the line that follows
\* it in the stream is parsed as any line is.
C18_MalformedNumber ==
    /\ (/\ handled /\ SaidInfo
        /\ \/ SaidInt("depth") = Undefined
           \/ (said.val["score"].kind = W_cp /\ SaidInt("score") = Undefined))
       => posted = <<>>
    /\ (handled /\ lineNo > 1) => posted = handleUCIMessage(Printed(said))

\* C19: the adapter returns the first six fields of a position of more than
\* six fields, returns a position of six or fewer fields as it is, and
\* returns its own output as it is.
C19_PositionAdapter ==
    standardFen # Undefined =>
        LET out == standardFen[1] IN
        /\ Len(banFields) > 6 =>
              /\ out = Join(SubSeq(banFields, 1, 6))
              /\ Split(out) = SubSeq(banFields, 1, 6)
        /\ Len(banFields) <= 6 => out = banFen
        /\ convertBanChessFEN(out) = out

C19_Witness ==
    /\ standardFen # Undefined
    /\ Len(banFields) = 7
    /\ banFields[2] = <<>>
    /\ Len(Split(standardFen[1])) = 6
    /\ standardFen[1] # banFen
    /\ convertBanChessFEN(standardFen[1]) = standardFen[1]

\* ------------------------------------------ claims: the search worker
\* C20: no depth iteration of a FIND_BEST_MOVE search is started after a
\* STOP was posted to the worker while that search was in progress.
C20_StopEndsDepthLoop == find.lateDepths = 0


\* The depth iterations of the search in progress, or of the last search,
\* that returned a non-empty line, and the line of the last of them.
Lines == {i \in 1..Len(find.searches) : find.searches[i].pv # <<>>}

LastLine ==
    IF Lines = {} THEN <<>>
    ELSE find.searches[CHOOSE i \in Lines : \A j \in Lines : j <= i].pv

IsError(m) == m.type = "ERROR"

\* C21: the BEST_MOVE message that ends a search carries, as its move and as
\* its one-element line, the first action of the line returned by the last
\* depth iteration that returned a non-empty line; when no iteration
\* returned a line the move is null, the line is empty and the search posted
\* no ERROR message.
C21_BestMoveOfLastLine ==
    \A i \in 1..Len(swOutbox) :
        swOutbox[i].type = "BEST_MOVE" =>
            /\ LastLine # <<>> =>
                   /\ swOutbox[i].move = Some(LastLine[1])
                   /\ swOutbox[i].pv = <<LastLine[1]>>
            /\ LastLine = <<>> =>
                   /\ swOutbox[i].move = Undefined
                   /\ swOutbox[i].pv = <<>>
                   /\ Count(swOutbox, IsError) = 0

\* A search ended with BEST_MOVE after an early depth returned one line, a
\* later depth another and the last depth none.
C21_Witness ==
    /\ swOutbox # <<>>
    /\ swOutbox[Len(swOutbox)].type = "BEST_MOVE"
    /\ \E i, j \in Lines :
           /\ i < j
           /\ j < Len(find.searches)
           /\ find.searches[i].pv[1] # find.searches[j].pv[1]
           /\ LastLine = find.searches[j].pv

\* A search in which no depth returned a line ended with BEST_MOVE.
NoLineResult ==
    /\ swOutbox # <<>>
    /\ swOutbox[Len(swOutbox)].type = "BEST_MOVE"
    /\ Len(find.searches) > 1
    /\ Lines = {}

IsProgress(m) == m.type = "SEARCH_UPDATE" /\ m.depth > 0

\* C26: the depth iterations of a search are numbered 1, 2, ... and are no
\* more than the maximum depth; each was given min(500, timeLimit / maxDepth)
\* ms; a SEARCH_UPDATE with a depth above 0 was posted only for an iteration
\* that returned a non-empty line, in ascending order of depth; and every
\* iteration but the last ended within the total time limit.
C26_IterativeDeepening ==
    LET S == find.searches
        n == Len(find.searches)
    IN /\ n <= find.maxDepth
       /\ \A i \in 1..n :
              /\ S[i].depth = i
              /\ S[i].movetime.num <= SearchCap * S[i].movetime.den
              /\ S[i].movetime.num * find.maxDepth
                     <= find.timeLimit * S[i].movetime.den
              /\ \/ S[i].movetime.num = SearchCap * S[i].movetime.den
                 \/ S[i].movetime.num * find.maxDepth
                        = find.timeLimit * S[i].movetime.den
       /\ \A i \in 1..(n - 1) : S[i].elapsed <= find.timeLimit
       /\ \A k \in 1..Len(swOutbox) :
              IsProgress(swOutbox[k]) =>
                  /\ swOutbox[k].depth <= n
                  /\ S[swOutbox[k].depth].pv # <<>>
                  /\ \A l \in 1..(k - 1) :
                         swOutbox[l].type = "SEARCH_UPDATE" =>
                             swOutbox[l].depth < swOutbox[k].depth

\* A search with a per-depth limit below the cap ran three depths, one of
\* them without a line, and stopped short of the maximum depth because the
\* time limit was exceeded.
C26_Witness ==
    /\ ~find.active
    /\ Len(find.searches) >= 3
    /\ Len(find.searches) < find.maxDepth
    /\ find.searches[1].movetime.num < SearchCap * find.searches[1].movetime.den
    /\ find.searches[Len(find.searches)].elapsed > find.timeLimit
    /\ \E i \in 1..Len(find.searches) : find.searches[i].pv = <<>>
    /\ Count(swOutbox, IsProgress) >= 2
    /\ swOutbox[Len(swOutbox)].type = "BEST_MOVE"

Terminal(m) == m.type \in {"BEST_MOVE", "ERROR"}

\* C30: isSearching is false whenever no FIND_BEST_MOVE handler is running;
\* a BEST_MOVE or ERROR message is the last message of its handler, posted
\* after every SEARCH_UPDATE, and is posted only when the handler ends; and
\* once the handler of a search that began has ended, its last message is
\* such a message.
C30_OneTerminalMessage ==
    /\ ~find.active => ~isSearching
    /\ \A i \in 1..Len(swOutbox) :
           Terminal(swOutbox[i]) => (i = Len(swOutbox) /\ ~find.active)
    /\ (~find.active /\ swOutbox # <<>>
        /\ swOutbox[1].type = "SEARCH_UPDATE") =>
           Terminal(swOutbox[Len(swOutbox)])

\* A search posted two progress updates and then ended with an ERROR.
C30_Witness ==
    /\ ~find.active
    /\ ~isSearching
    /\ Count(swOutbox, IsProgress) = 2
    /\ swOutbox[Len(swOutbox)].type = "ERROR"
    /\ Count(swOutbox, Terminal) = 1


\* The places of panelPrev whose line has the rank of the last event.
SameRank ==
    {i \in 1..Len(panelPrev) : panelPrev[i].multipv = panelEvent[1].multiPV}

\* C27: the list of engine lines is in strictly ascending order of rank, so
\* it holds at most one line per rank; the last evaluation event either
\* replaced, in place, the one line that had its rank and left the others
\* as they were, or, no line having its rank, added one line to the lines
\* there were; the line of the event carries its evaluation.
C27_OneLinePerRank ==
    /\ \A i, j \in 1..Len(engineLines) :
           i < j => engineLines[i].multipv < engineLines[j].multipv
    /\ \A i \in 1..Len(engineLines) :
           engineLines[i].id = LineId(engineLines[i].multipv)
    /\ panelEvent # Undefined =>
           /\ SameRank # {} =>
                  /\ Len(engineLines) = Len(panelPrev)
                  /\ \A i \in 1..Len(panelPrev) :
                         IF i \in SameRank
                         THEN /\ engineLines[i].multipv =
                                     panelEvent[1].multiPV
                              /\ engineLines[i].evaluation =
                                     panelEvent[1].evaluation
                         ELSE engineLines[i] = panelPrev[i]
           /\ SameRank = {} =>
                  /\ Len(engineLines) = Len(panelPrev) + 1
                  /\ \E k \in 1..Len(engineLines) :
                         /\ engineLines[k].multipv = panelEvent[1].multiPV
                         /\ engineLines[k].evaluation =
                                panelEvent[1].evaluation
                         /\ RemoveAt(engineLines, k) = panelPrev

\* The list holds three lines and the last event replaced the second with
\* another evaluation.
C27_Witness ==
    /\ Len(engineLines) = 3
    /\ Len(panelPrev) = 3
    /\ panelEvent # Undefined
    /\ panelEvent[1].multiPV = 2
    /\ engineLines[2].evaluation # panelPrev[2].evaluation
    /\ engineLines[2].evaluation = panelEvent[1].evaluation

\* The last event put a line of rank 1 in front of the lines of ranks 2
\* and 3.
InsertedInFront ==
    /\ Len(panelPrev) = 2
    /\ Len(engineLines) = 3
    /\ panelEvent[1].multiPV = 1
    /\ engineLines[1].multipv = 1

====
